---- MODULE Spec2Model ----
(***************************************************************************)
(* Model of the upload queue of the interview uploader                     *)
(* (services/queue_manager.js, with the parts of services/api_client.js    *)
(* and services/file_manager.js it calls).                                 *)
(*                                                                         *)
(* JavaScript runs one task at a time: every action below is one           *)
(* synchronous run of code, from the point where a task is resumed to the  *)
(* next await at which it suspends.  The position of the processing loop   *)
(* (processQueue and the processItem call it awaits) is the variable pc.   *)
(* Strings the code computes on (paths, links) are sequences of one        *)
(* character strings; progress is kept in tenths of a percent, since       *)
(* line 240 of the queue manager stores 80 + progress * 0.1.               *)
(***************************************************************************)
EXTENDS Integers, Sequences, FiniteSets, TLC

\* ------------------------------------------------------------- bounds
\* addVideo calls made in one behaviour
MaxCalls == 2
\* largest value of the clock Date.now() reads, in days
MaxTime == 1
\* largest maxRetries tried by the stand-alone retry specification
MaxRetriesBound == 4

\* ------------------------------------------------- program constants
\* retryOperation(fn, 3, 10000): attempts of every upload
UploadRetries == 3
\* scheduleFileDeletion(item.originalFilePath, 50): days of retention
RetentionDays == 50
\* progress is stored in tenths: Pct(50) is the code's 50
Pct(n) == n * 10

\* null and undefined where the other values are names
Null == "null"
Undefined == "undefined"
\* null where the other values are character strings (links)
NullStr == <<"null">>
\* completedAt: null (line 77), where the other values are clock readings
NoTime == -1

\* ------------------------------------------------------ pure helpers
Lower == [c \in {"A", "C", "F", "G", "L", "M", "O", "P", "V", "W"} |->
            CASE c = "A" -> "a" [] c = "C" -> "c" [] c = "F" -> "f"
              [] c = "G" -> "g" [] c = "L" -> "l" [] c = "M" -> "m"
              [] c = "O" -> "o" [] c = "P" -> "p" [] c = "V" -> "v"
              [] c = "W" -> "w"]

\* String.prototype.toLowerCase
ToLowerCase(s) == [i \in DOMAIN s |-> IF s[i] \in DOMAIN Lower THEN Lower[s[i]] ELSE s[i]]

\* String.prototype.trim over the blank character
RECURSIVE TrimLeft(_)
TrimLeft(s) == IF s # <<>> /\ Head(s) = " " THEN TrimLeft(Tail(s)) ELSE s
RECURSIVE TrimRight(_)
TrimRight(s) == IF s # <<>> /\ s[Len(s)] = " " THEN TrimRight(SubSeq(s, 1, Len(s) - 1)) ELSE s
Trim(s) == TrimRight(TrimLeft(s))

\* path.basename: what follows the last "/"
RECURSIVE BaseName(_)
BaseName(p) ==
  IF \E i \in DOMAIN p : p[i] = "/"
  THEN BaseName(Tail(p))
  ELSE p

\* path.extname: from the last "." of the base name to its end; empty when
\* there is none or when it is the first character of the base name
ExtName(p) ==
  LET b == BaseName(p)
      dots == { i \in DOMAIN b : b[i] = "." }
  IN  IF dots = {} THEN <<>>
      ELSE LET d == CHOOSE i \in dots : \A j \in dots : j <= i
           IN  IF d = 1 THEN <<>> ELSE SubSeq(b, d, Len(b))

\* the list of line 175
audioExtensions ==
  { <<".", "m", "p", "3">>, <<".", "w", "a", "v">>, <<".", "m", "4", "a">>,
    <<".", "a", "a", "c">>, <<".", "f", "l", "a", "c">>, <<".", "o", "g", "g">> }

\* the extension compared as it is written
IsAudioOnlyCaseSensitive(filePath) == ExtName(filePath) \in audioExtensions

\* lines 176-177
IsAudioOnly(filePath) == ToLowerCase(ExtName(filePath)) \in audioExtensions

\* api_client.js line 72: interview.recording_link && interview.recording_link.trim() !== ''
HasRecording(link) == link # NullStr /\ link # <<>> /\ Trim(link) # <<>>

\* ------------------------------------------------------------ inputs
\* files the user can pick
Files == { <<"/", "v", "/", "a", ".", "m", "p", "4">>,
           <<"/", "v", "/", "b", ".", "M", "P", "3">> }

\* interview ids the user can type: 1 has no recording yet (its link is
\* blank), 2 has one, 3 is unknown to the record store
InterviewIds == {1, 2, 3}
KnownIds == {1, 2}
InitialLink(id) == IF id = 1 THEN <<" ", " ">> ELSE <<"x", " ">>

\* the addVideo calls the user makes: both files for the interview that can
\* be uploaded, one file for the two that are refused
Inputs == { <<f, 1>> : f \in Files } \cup
          { <<CHOOSE f \in Files : ~IsAudioOnly(f), id>> : id \in {2, 3} }

\* values a recording_link can have
LinkValues == {NullStr, <<>>, <<" ">>, <<" ", " ">>, <<"x">>, <<" ", "x">>, <<"x", " ">>,
               <<" ", "x", " ">>}

\* the metadata the record store holds for an interview
Details(id) ==
  [full_name |-> <<"c", "a", "n", "d", ToString(id)>>,
   company |-> <<"c", "o", ToString(id)>>,
   type_of_interview |-> <<"t", "y", "p", "e", ToString(id)>>,
   interview_date |-> [typeof |-> "string",
                       value |-> <<"2", "0", "2", "4", "-", "0", ToString(id)>>]]

\* messages of the failures of the collaborators: the k-th failure of an
\* upload says so, which tells the failures of one retryOperation call apart
UploadError(k) == <<"upload failed, attempt ", k>>
CompressError == <<"compression failed">>
WriteBackError == <<"update failed">>
\* the message of a throwing update callback
CallbackError == <<"callback failed">>

\* configurations main.js can pass to setConfig, and the constructor's null
NullConfig == [isNull |-> TRUE, compressedStorage |-> Undefined, driveFolderId |-> Undefined]
EmptyConfig == [isNull |-> FALSE, compressedStorage |-> Undefined, driveFolderId |-> Undefined]
ConfigA == [isNull |-> FALSE, compressedStorage |-> "/outA", driveFolderId |-> "folderA"]
Configs == {EmptyConfig, ConfigA}

\* progress values the compressor and the transcriber report
ProgressValues == {33, 100}

\* links the upload collaborators return for a job
DriveLinkOf(item) == <<"D", ToString(item.id)>>
YouTubeLinkOf(item) == <<"Y", ToString(item.id)>>
TranscriptLinkOf(item) == <<"T", ToString(item.id)>>

\* ------------------------------------------------------- file names
\* Strings are sequences of characters. An interview date is a string
\* [typeof |-> "string", value |-> s], a Date [typeof |-> "Date",
\* toISOString |-> s] or null [typeof |-> "null"].
Whitespace == {" ", "\t", "\n"}
ReservedChars == {"<", ">", ":", "\"", "/", "\\", "|", "?", "*"}

\* s.replace(/[set]/g, '')
Remove(s, set) == SelectSeq(s, LAMBDA c : c \notin set)

\* s.replace(/[set]+/g, with): every maximal run becomes one copy of with
RECURSIVE ReplaceRuns(_, _, _)
ReplaceRuns(s, set, with) ==
  IF s = <<>> THEN <<>>
  ELSE IF Head(s) \notin set THEN <<Head(s)>> \o ReplaceRuns(Tail(s), set, with)
  ELSE IF Len(s) > 1 /\ s[2] \in set THEN ReplaceRuns(Tail(s), set, with)
  ELSE with \o ReplaceRuns(Tail(s), set, with)

\* s.replace(/c/g, with)
RECURSIVE ReplaceEach(_, _, _)
ReplaceEach(s, c, with) ==
  IF s = <<>> THEN <<>>
  ELSE (IF Head(s) = c THEN with ELSE <<Head(s)>>) \o ReplaceEach(Tail(s), c, with)

\* s.substring(0, n)
Substring0(s, n) == SubSeq(s, 1, IF Len(s) < n THEN Len(s) ELSE n)

\* the first replace of sanitizeFilename
StripReserved(name) == Remove(name, ReservedChars)

sanitizeFilename(name) ==
  LET stripped == StripReserved(name)
      spaced == ReplaceRuns(stripped, Whitespace, <<"_">>)
      unquoted == ReplaceRuns(spaced, {"'"}, <<>>)
      anded == ReplaceEach(unquoted, "&", <<"a", "n", "d">>)
      collapsed == ReplaceRuns(anded, {"_"}, <<"_">>)
  IN Substring0(collapsed, 200)

\* s.split('T')[0]
RECURSIVE BeforeT(_)
BeforeT(s) ==
  IF s = <<>> \/ Head(s) = "T" THEN <<>> ELSE <<Head(s)>> \o BeforeT(Tail(s))

formattedDate(interviewDate) ==
  IF interviewDate.typeof = "string" THEN BeforeT(interviewDate.value)
  ELSE IF interviewDate.typeof = "Date" THEN BeforeT(interviewDate.toISOString)
  ELSE <<"n", "u", "l", "l">>

generateFileName(candidateName, company, interviewType, interviewDate, extension) ==
  LET safeName == sanitizeFilename(candidateName)
      safeCompany == sanitizeFilename(company)
      safeType == sanitizeFilename(ReplaceRuns(interviewType, Whitespace, <<"_">>))
  IN safeName \o <<"_">> \o safeCompany \o <<"_">> \o safeType \o <<"_">>
        \o formattedDate(interviewDate) \o extension

\* ------------------------------------------------------------- state
VARIABLES
  queue,              \* this.queue: the jobs, in the order they were pushed
  processing,         \* this.processing
  updateCallback,     \* this.updateCallback: "null", "ok" (returns) or "throws"
  config,             \* this.config
  env,                \* process.env: GOOGLE_DRIVE_FOLDER_ID, the two WHISPER paths
  now,                \* what Date.now() returns
  db,                 \* the record store: interview id -> recording_link
  scheduledDeletions, \* the electron-store of line 13: path -> deleteAt
  calls,              \* number of addVideo calls made so far
  pending,            \* addVideo calls awaiting getInterviewDetails
  lastResult,         \* what the addVideo call that returned last resolved with
  loops,              \* number of processQueue calls that have not returned
  pc,                 \* where the processQueue / processItem task is suspended
  cur,                \* id of the item processItem is working on, 0 when none
  frame,              \* the locals of that processItem call
  retry,              \* the locals of its retryOperation call
  disk,               \* the files that exist (fs.existsSync)
  lastSweep,          \* the clock value the sweep that ran last read, NoTime
                      \* once the store, the files or the clock changed since
  args,               \* the arguments of a call made on its own of one of the
                      \* pure functions, <<>> when there is none
  result,             \* what that call returned, <<>> until it returns
  shown               \* the queue the update callback was called with last

vars == <<queue, processing, updateCallback, config, env, now, db, scheduledDeletions,
          calls, pending, lastResult, loops, pc, cur, frame, retry, disk, lastSweep,
          args, result, shown>>

\* ------------------------------------------------------ retry wrapper
\* The locals of one retryOperation(fn, maxRetries, delay) call, with a count
\* of the calls of fn, of the delays begun, and the messages fn failed with.
NoRetry == [phase |-> "none", maxRetries |-> 0, attempt |-> 0, invoked |-> 0,
            delays |-> 0, errors |-> <<>>, value |-> NullStr, error |-> NullStr]

\* the loop allowing one attempt more than it was asked for
RetryStartOneMore(maxRetries) ==
  [NoRetry EXCEPT !.phase = "calling", !.maxRetries = maxRetries + 1,
                  !.attempt = 1, !.invoked = 1]

\* lines 310-313: the loop is entered with attempt = 1 and calls fn, or is
\* not entered at all and the function returns undefined
RetryStart(maxRetries) ==
  IF 1 <= maxRetries
  THEN [NoRetry EXCEPT !.phase = "calling", !.maxRetries = maxRetries,
                       !.attempt = 1, !.invoked = 1]
  ELSE [NoRetry EXCEPT !.phase = "resolved", !.maxRetries = maxRetries,
                       !.value = <<Undefined>>]

\* line 313: fn resolved with v, which retryOperation returns
RetryResolve(r, v) == [r EXCEPT !.phase = "resolved", !.value = v]

\* the catch calling fn again at once, without the delay
RetryCatchNoDelay(r, e) ==
  IF r.attempt = r.maxRetries
  THEN [r EXCEPT !.phase = "rejected", !.error = e, !.errors = Append(@, e)]
  ELSE [r EXCEPT !.phase = "calling", !.errors = Append(@, e), !.attempt = @ + 1,
                 !.invoked = @ + 1]

\* the last attempt rethrowing the error of the first
RetryCatchFirstError(r, e) ==
  IF r.attempt = r.maxRetries
  THEN [r EXCEPT !.phase = "rejected", !.error = Head(Append(r.errors, e)),
                 !.errors = Append(@, e)]
  ELSE [r EXCEPT !.phase = "sleeping", !.errors = Append(@, e), !.delays = @ + 1]

\* the catch sleeping after the last attempt as after the others
RetryCatchAlwaysDelay(r, e) ==
  [r EXCEPT !.phase = "sleeping", !.errors = Append(@, e), !.delays = @ + 1]

\* lines 314-319: fn threw e; the last attempt rethrows it, the others sleep
RetryCatch(r, e) ==
  IF r.attempt = r.maxRetries
  THEN [r EXCEPT !.phase = "rejected", !.error = e, !.errors = Append(@, e)]
  ELSE [r EXCEPT !.phase = "sleeping", !.errors = Append(@, e), !.delays = @ + 1]

\* lines 319, 311: the timer fired; attempt++ and the loop test
RetryWake(r) ==
  IF r.attempt + 1 <= r.maxRetries
  THEN [r EXCEPT !.phase = "calling", !.attempt = @ + 1, !.invoked = @ + 1]
  ELSE [r EXCEPT !.phase = "resolved", !.attempt = @ + 1, !.value = <<Undefined>>]

\* ------------------------------------------------------ queue helpers
IndexOf(q, id) == CHOOSE i \in DOMAIN q : q[i].id = id
ItemOf(q, id) == q[IndexOf(q, id)]
InQueue(q, id) == \E i \in DOMAIN q : q[i].id = id

\* the assignments also replacing the candidate name of the item
AssignRenaming(q, id, fields) ==
  [i \in DOMAIN q |->
     IF q[i].id = id
     THEN [f \in DOMAIN q[i] |-> IF f \in DOMAIN fields THEN fields[f]
                                 ELSE IF f = "candidateName" THEN <<"c", "a", "n", "d", "0">>
                                 ELSE q[i][f]]
     ELSE q[i]]

\* assignments to fields of the item object with this id
Assign(q, id, fields) ==
  [i \in DOMAIN q |->
     IF q[i].id = id
     THEN [f \in DOMAIN q[i] |-> IF f \in DOMAIN fields THEN fields[f] ELSE q[i][f]]
     ELSE q[i]]

\* the filter dropping the failed jobs with the completed ones
FilterNotTerminal(q) == SelectSeq(q, LAMBDA item : item.status \notin {"completed", "failed"})

\* line 354
FilterNotCompleted(q) == SelectSeq(q, LAMBDA item : item.status # "completed")

\* lines 353-356 and 31-35: the queue clearCompleted leaves, the snapshots
\* it hands to the callback cb, and whether it ends by throwing
clearCompleted(q, cb) ==
  LET kept == FilterNotCompleted(q)
  IN  [queue |-> kept,
       snapshots |-> IF cb = "null" THEN <<>> ELSE <<kept>>,
       throws |-> cb = "throws"]

\* lines 31-35: the callback, when there is one, may throw
UpdateUIThrows == updateCallback = "throws"

\* the callback has not been called yet
NeverShown == [invoked |-> FALSE, queue |-> <<>>]

\* lines 31-35: the callback, when there is one, is called with this.queue
Invoke(sh, q) == IF updateCallback = "null" THEN sh ELSE [invoked |-> TRUE, queue |-> q]

\* the locals of processItem
NoFrame == [compressedPath |-> <<>>, driveFolderId |-> Null, driveLink |-> NullStr,
            youtubeLink |-> NullStr, transcriptLink |-> NullStr,
            transcriptPath |-> <<>>, writeBack |-> <<>>]

\* the part of the state the processing task writes, as one record.  The
\* operators below take such a record and give the record after a stretch
\* of code; each binds its argument once (m \in {before}), as a call does.
Machine == [queue |-> queue, processing |-> processing, loops |-> loops, pc |-> pc,
            cur |-> cur, frame |-> frame, retry |-> retry, db |-> db,
            scheduledDeletions |-> scheduledDeletions, shown |-> shown]

Becomes(m) ==
  \E x \in {m} :
    /\ queue' = x.queue
    /\ processing' = x.processing
    /\ loops' = x.loops
    /\ pc' = x.pc
    /\ cur' = x.cur
    /\ frame' = x.frame
    /\ retry' = x.retry
    /\ db' = x.db
    /\ scheduledDeletions' = x.scheduledDeletions
    /\ shown' = x.shown

\* processItem settled: its locals are gone, and processQueue, which awaits
\* it (line 109) and still holds nextItem, is resumed later at its loop test.
\* What is left of the retryOperation call is kept until then when it ended
\* by rethrowing.
Settled(m) ==
  [m EXCEPT !.pc = "scan", !.frame = NoFrame,
            !.retry = IF @.phase = "rejected" THEN @ ELSE NoRetry]

\* updateUI returning without calling the callback
updateUISilent(m) == m

\* this.updateUI() in the processing task and in addVideo
updateUI(m) == [m EXCEPT !.shown = Invoke(@, m.queue)]

\* the catch of processItem rethrowing, so that the loop ends with the job
CatchAndStop(before, message) ==
  CHOOSE after \in {
  [m EXCEPT !.queue = Assign(@, m.cur, [status |-> "failed", error |-> message,
                                        currentStep |-> <<"Failed: ", message>>]),
            !.processing = FALSE, !.loops = @ - 1, !.pc = "idle", !.frame = NoFrame,
            !.retry = NoRetry]
  : m \in {before} } : TRUE

\* the catch of processItem marking the job failed without ending the call
CatchAndContinue(before, message) ==
  CHOOSE after \in {
  [m EXCEPT !.queue = Assign(@, m.cur, [status |-> "failed", error |-> message,
                                        currentStep |-> <<"Failed: ", message>>])]
  : m \in {before} } : TRUE

\* the catch of processItem leaving item.error as it is
CatchNoError(before, message) ==
  CHOOSE after \in {
  Settled([m EXCEPT !.queue = Assign(@, m.cur, [status |-> "failed",
                                                currentStep |-> <<"Failed: ", message>>])])
  : m \in {before} } : TRUE

\* lines 301-307: the catch of processItem.  processItem then returns, or
\* rejects when updateUI throws again, which processQueue catches (110-112).
Catch(before, message) ==
  CHOOSE after \in {
  Settled(updateUI([m EXCEPT !.queue = Assign(@, m.cur,
                                [status |-> "failed", error |-> message,
                                 currentStep |-> <<"Failed: ", message>>])]))
  : m \in {before} } : TRUE

\* step 5 passing the YouTube link where the Drive link belongs
WriteBackStepSwapped(before) ==
  CHOOSE after \in {
  LET item == ItemOf(m.queue, m.cur)
      m1 == updateUI([m EXCEPT !.queue = Assign(@, m.cur, [currentStep |-> <<"Updating database...">>,
                                                  progress |-> Pct(95)])])
  IN  IF UpdateUIThrows THEN Catch(m1, CallbackError)
      ELSE [m1 EXCEPT !.pc = "writeback",
                      !.frame.writeBack = <<item.interviewId, m.frame.youtubeLink,
                                            m.frame.driveLink, m.frame.transcriptLink,
                                            item.finalFileName>>]
  : m \in {before} } : TRUE

\* lines 282-288: step 5, up to the await of updateRecordingLinks
WriteBackStep(before) ==
  CHOOSE after \in {
  LET item == ItemOf(m.queue, m.cur)
      m1 == updateUI([m EXCEPT !.queue = Assign(@, m.cur, [currentStep |-> <<"Updating database...">>,
                                                  progress |-> Pct(95)])])
  IN  IF UpdateUIThrows THEN Catch(m1, CallbackError)
      ELSE [m1 EXCEPT !.pc = "writeback",
                      !.frame.writeBack = <<item.interviewId, m.frame.driveLink,
                                            m.frame.youtubeLink, m.frame.transcriptLink,
                                            item.finalFileName>>]
  : m \in {before} } : TRUE

\* lines 200-213 and 278-280: step 4, up to the await of initializeWhisper
TranscriptionStep(before) ==
  CHOOSE after \in {
  LET m1 == updateUI([m EXCEPT !.queue = Assign(@, m.cur, [currentStep |-> <<"Transcribing audio...">>,
                                                  progress |-> Pct(80)]),
                      !.frame.transcriptLink = NullStr])
  IN  IF UpdateUIThrows THEN Catch(m1, CallbackError)
      ELSE IF env.whisper THEN [m1 EXCEPT !.pc = "whisperInit"]
      ELSE WriteBackStep(m1)
  : m \in {before} } : TRUE

\* lines 174-198: step 3, up to the await of the YouTube upload
YouTubeStep(before) ==
  CHOOSE after \in {
  LET item == ItemOf(m.queue, m.cur)
      m0 == [m EXCEPT !.frame.youtubeLink = NullStr]
  IN  IF IsAudioOnly(item.originalFilePath)
      THEN LET m1 == updateUI([m0 EXCEPT !.queue = Assign(@, m.cur,
                          [currentStep |-> <<"Skipping YouTube (audio-only file)...">>,
                           progress |-> Pct(75)])])
           IN  IF UpdateUIThrows THEN Catch(m1, CallbackError) ELSE TranscriptionStep(m1)
      ELSE LET m1 == updateUI([m0 EXCEPT !.queue = Assign(@, m.cur,
                          [currentStep |-> <<"Uploading to YouTube (original)...">>,
                           progress |-> Pct(75)])])
           IN  IF UpdateUIThrows THEN Catch(m1, CallbackError)
               ELSE [m1 EXCEPT !.pc = "youtube", !.retry = RetryStart(UploadRetries)]
  : m \in {before} } : TRUE

\* step 2 going on to step 3 without the Drive upload
DriveStepSkipping(before) ==
  CHOOSE after \in {
  LET m1 == updateUI([m EXCEPT !.queue = Assign(@, m.cur,
                 [status |-> "uploading",
                  currentStep |-> <<"Uploading to Google Drive (compressed)...">>,
                  progress |-> Pct(50)])])
  IN  IF UpdateUIThrows THEN Catch(m1, CallbackError) ELSE YouTubeStep(m1)
  : m \in {before} } : TRUE

\* lines 157-171: step 2, up to the await of the Drive upload
DriveStep(before) ==
  CHOOSE after \in {
  LET m1 == updateUI([m EXCEPT !.queue = Assign(@, m.cur,
                 [status |-> "uploading",
                  currentStep |-> <<"Uploading to Google Drive (compressed)...">>,
                  progress |-> Pct(50)])])
      folder == IF env.GOOGLE_DRIVE_FOLDER_ID # Undefined THEN env.GOOGLE_DRIVE_FOLDER_ID
                ELSE IF config.driveFolderId # Undefined THEN config.driveFolderId
                ELSE Null
  IN  IF UpdateUIThrows THEN Catch(m1, CallbackError)
      ELSE IF env.GOOGLE_DRIVE_FOLDER_ID = Undefined /\ config.isNull
           THEN Catch(m1, <<"Cannot read properties of null">>)
      ELSE [m1 EXCEPT !.pc = "drive", !.retry = RetryStart(UploadRetries),
                      !.frame.driveFolderId = folder]
  : m \in {before} } : TRUE

\* lines 119-152: processItem(item) up to the await of compressVideo
ProcessItem(before, id) ==
  CHOOSE after \in {
  LET m0 == [m EXCEPT !.cur = id, !.frame = NoFrame, !.retry = NoRetry]
  IN  IF config.isNull THEN Catch(m0, <<"Configuration not set">>)
      ELSE IF config.compressedStorage = Undefined
           THEN Catch(m0, <<"Compressed storage path not configured">>)
      ELSE LET m1 == updateUI([m0 EXCEPT !.queue = Assign(@, id,
                          [status |-> "compressing", currentStep |-> <<"Compressing video...">>])])
           IN  IF UpdateUIThrows THEN Catch(m1, CallbackError)
               ELSE [m1 EXCEPT !.pc = "compress",
                               !.frame.compressedPath =
                                  <<config.compressedStorage, ItemOf(m.queue, id).finalFileName>>]
  : m \in {before} } : TRUE

\* LoopTest taking the last waiting job instead of the first
LoopTestLast(before) ==
  CHOOSE after \in {
  IF \E i \in DOMAIN m.queue : m.queue[i].status = "waiting"
  THEN LET last == CHOOSE i \in DOMAIN m.queue :
                     /\ m.queue[i].status = "waiting"
                     /\ \A j \in (i + 1)..Len(m.queue) : m.queue[j].status # "waiting"
       IN  ProcessItem(m, m.queue[last].id)
  ELSE [m EXCEPT !.processing = FALSE, !.loops = @ - 1, !.pc = "idle", !.cur = 0,
                 !.retry = NoRetry]
  : m \in {before} } : TRUE

\* LoopTest taking failed jobs up again
LoopTestRedrive(before) ==
  CHOOSE after \in {
  IF \E i \in DOMAIN m.queue : m.queue[i].status \in {"waiting", "failed"}
  THEN LET first == CHOOSE i \in DOMAIN m.queue :
                      /\ m.queue[i].status \in {"waiting", "failed"}
                      /\ \A j \in 1..(i - 1) : m.queue[j].status \notin {"waiting", "failed"}
       IN  ProcessItem(m, m.queue[first].id)
  ELSE [m EXCEPT !.processing = FALSE, !.loops = @ - 1, !.pc = "idle", !.cur = 0,
                 !.retry = NoRetry]
  : m \in {before} } : TRUE

\* lines 104-116: the loop test of processQueue and what follows it
LoopTest(before) ==
  CHOOSE after \in {
  IF \E i \in DOMAIN m.queue : m.queue[i].status = "waiting"
  THEN LET first == CHOOSE i \in DOMAIN m.queue :
                      /\ m.queue[i].status = "waiting"
                      /\ \A j \in 1..(i - 1) : m.queue[j].status # "waiting"
       IN  ProcessItem(m, m.queue[first].id)
  ELSE [m EXCEPT !.processing = FALSE, !.loops = @ - 1, !.pc = "idle", !.cur = 0,
                 !.retry = NoRetry]
  : m \in {before} } : TRUE

\* processQueue not setting the flag before it first awaits
processQueueLateFlag(m) == LoopTest([m EXCEPT !.loops = @ + 1])

\* lines 101-117: a call of processQueue, up to its first await or its return
processQueue(m) == LoopTest([m EXCEPT !.processing = TRUE, !.loops = @ + 1])

\* --------------------------------------------------------------- Init
Absent == <<"404">>

Init ==
  /\ queue = <<>>
  /\ processing = FALSE
  /\ updateCallback = "null"
  /\ config = NullConfig
  /\ env \in [GOOGLE_DRIVE_FOLDER_ID : {Undefined}, whisper : BOOLEAN]
  /\ now = 0
  /\ db = [id \in InterviewIds |-> IF id \in KnownIds THEN InitialLink(id) ELSE Absent]
  /\ scheduledDeletions = <<>>
  /\ calls = 0
  /\ pending = {}
  /\ lastResult = [success |-> FALSE, error |-> NullStr]
  /\ loops = 0
  /\ pc = "idle"
  /\ cur = 0
  /\ frame = NoFrame
  /\ retry = NoRetry
  /\ disk = Files
  /\ lastSweep = NoTime
  /\ args = <<>>
  /\ result = <<>>
  /\ shown = NeverShown

\* ------------------------------------------------- the environment
\* lines 23-25
SetConfig(c) ==
  /\ config' = c
  /\ UNCHANGED <<queue, processing, updateCallback, env, now, db, scheduledDeletions,
                 calls, pending, lastResult, loops, pc, cur, frame, retry,
                 disk, lastSweep, args, result, shown>>

\* lines 27-29; main.js registers a callback that throws once the window is gone
SetUpdateCallback(cb) ==
  /\ updateCallback' = cb
  /\ UNCHANGED <<queue, processing, config, env, now, db, scheduledDeletions,
                 calls, pending, lastResult, loops, pc, cur, frame, retry,
                 disk, lastSweep, args, result, shown>>

\* the clock advances
Tick ==
  /\ now < MaxTime
  /\ now' = now + 1
  /\ UNCHANGED <<queue, processing, updateCallback, config, env, db, scheduledDeletions,
                 calls, pending, lastResult, loops, pc, cur, frame, retry,
                 disk, lastSweep, args, result, shown>>

\* lines 353-356; an exception of updateUI goes to the caller
ClearCompleted ==
  /\ queue' = clearCompleted(queue, updateCallback).queue
  /\ shown' = Invoke(shown, queue')
  /\ UNCHANGED <<processing, updateCallback, config, env, now, db, scheduledDeletions,
                 calls, pending, lastResult, loops, pc, cur, frame, retry,
                 disk, lastSweep, args, result>>

\* ----------------------------------------------------------- addVideo
\* lines 37-43: addVideo up to the await of getInterviewDetails
AddVideoCall(filePath, interviewId) ==
  /\ calls < MaxCalls
  /\ calls' = calls + 1
  /\ pending' = pending \cup {[n |-> calls + 1, filePath |-> filePath,
                                interviewId |-> interviewId]}
  /\ UNCHANGED <<queue, processing, updateCallback, config, env, now, db,
                 scheduledDeletions, lastResult, loops, pc, cur, frame, retry,
                 disk, lastSweep, args, result, shown>>

\* lines 62-78
NewItem(c, details) ==
  [id |-> c.n,
   originalFileName |-> BaseName(c.filePath),
   originalFilePath |-> c.filePath,
   interviewId |-> c.interviewId,
   candidateName |-> details.full_name,
   company |-> details.company,
   interviewType |-> details.type_of_interview,
   interviewDate |-> details.interview_date,
   finalFileName |-> generateFileName(details.full_name, details.company,
                                      details.type_of_interview, details.interview_date,
                                      ExtName(c.filePath)),
   status |-> "waiting",
   progress |-> 0,
   currentStep |-> <<"Waiting in queue">>,
   error |-> NullStr,
   addedAt |-> now,
   completedAt |-> NoTime]

\* getInterviewDetails without the check for an existing recording
GetInterviewDetailsUnguarded(interviewId, fetchOk) ==
  IF ~fetchOk THEN <<"API request failed">>
  ELSE IF db[interviewId] = Absent THEN <<"null">>
  ELSE <<"details">>

\* api_client.js lines 22-90: what getInterviewDetails settles with
\* ("details", or the message it throws, or "null" for a 404)
GetInterviewDetails(interviewId, fetchOk) ==
  IF ~fetchOk THEN <<"API request failed">>
  ELSE IF db[interviewId] = Absent THEN <<"null">>
  ELSE IF HasRecording(db[interviewId]) THEN <<"Recording already uploaded!">>
  ELSE <<"details">>

\* addVideo starting a loop whatever the flag says
StartAlways(m) == processQueue(m)

\* lines 86-92: the loop is started when the flag says none is running
StartIfIdle(before) ==
  CHOOSE after \in { IF ~m.processing THEN processQueue(m) ELSE m : m \in {before} } : TRUE

Failure(message) == [success |-> FALSE, error |-> message]

\* lines 43-98: addVideo from the settling of getInterviewDetails to its return
AddVideoResume(c, fetchOk) ==
  /\ c \in pending
  /\ pending' = pending \ {c}
  /\ LET got == GetInterviewDetails(c.interviewId, fetchOk)
         pushed == updateUI([Machine EXCEPT !.queue = Append(@, NewItem(c, Details(c.interviewId)))])
     IN  IF got = <<"null">>
         THEN /\ lastResult' = Failure(<<"Interview ID not found in database">>)
              /\ Becomes(Machine)
         ELSE IF got # <<"details">>
         THEN /\ lastResult' = Failure(got)
              /\ Becomes(Machine)
         ELSE IF UpdateUIThrows
         THEN /\ lastResult' = Failure(CallbackError)
              /\ Becomes(pushed)
         ELSE /\ lastResult' = [success |-> TRUE, error |-> NullStr]
              /\ Becomes(StartIfIdle(pushed))
  /\ UNCHANGED <<updateCallback, config, env, now, calls,
                 disk, lastSweep, args, result>>

\* ------------------------------------------------ the processing task
CurItem == ItemOf(queue, cur)
RetryStages == {"drive", "youtube", "transcriptUpload"}

\* line 109: processQueue is resumed after processItem settled
Scan ==
  /\ pc = "scan"
  /\ UNCHANGED <<updateCallback, config, env, now, calls, pending, lastResult,
                 disk, lastSweep, args, result>>
  /\ Becomes(LoopTest(Machine))

\* the compression callback storing the compressor's value as it is
CompressProgressUnscaled(p) ==
  /\ pc = "compress"
  /\ queue' = Assign(queue, cur, [progress |-> Pct(p),
                                   currentStep |-> <<"Compressing: ", p, "%">>])
  /\ shown' = Invoke(shown, queue')
  /\ UNCHANGED <<processing, updateCallback, config, env, now, db, scheduledDeletions,
                 calls, pending, lastResult, loops, pc, cur, frame, retry,
                 disk, lastSweep, args, result>>

\* lines 146-150: the compressor reports progress p; an exception of updateUI
\* goes to the compressor
CompressProgress(p) ==
  /\ pc = "compress"
  /\ queue' = Assign(queue, cur, [progress |-> Pct(p \div 2),
                                   currentStep |-> <<"Compressing: ", p, "%">>])
  /\ shown' = Invoke(shown, queue')
  /\ UNCHANGED <<processing, updateCallback, config, env, now, db, scheduledDeletions,
                 calls, pending, lastResult, loops, pc, cur, frame, retry,
                 disk, lastSweep, args, result>>

\* lines 142-171: compressVideo resolved
CompressDone ==
  /\ pc = "compress"
  /\ UNCHANGED <<updateCallback, config, env, now, calls, pending, lastResult,
                 disk, lastSweep, args, result>>
  /\ Becomes(DriveStep(Machine))

\* line 142: compressVideo rejected
CompressFail ==
  /\ pc = "compress"
  /\ UNCHANGED <<updateCallback, config, env, now, calls, pending, lastResult,
                 disk, lastSweep, args, result>>
  /\ Becomes(Catch(Machine, CompressError))

\* the upload awaited by retryOperation resolved: lines 313, then 172-198
\* (Drive), 197-213 (YouTube) or 272-288 (transcript)
UploadDone ==
  /\ pc \in RetryStages
  /\ retry.phase = "calling"
  /\ UNCHANGED <<updateCallback, config, env, now, calls, pending, lastResult,
                 disk, lastSweep, args, result>>
  /\ LET link == CASE pc = "drive" -> DriveLinkOf(CurItem)
                    [] pc = "youtube" -> YouTubeLinkOf(CurItem)
                    [] pc = "transcriptUpload" -> TranscriptLinkOf(CurItem)
         r == RetryResolve(retry, link)
         m == [Machine EXCEPT !.retry = NoRetry]
     IN  CASE pc = "drive" -> Becomes(YouTubeStep([m EXCEPT !.frame.driveLink = r.value]))
           [] pc = "youtube" ->
                Becomes(TranscriptionStep([m EXCEPT !.frame.youtubeLink = r.value]))
           [] pc = "transcriptUpload" ->
                Becomes(WriteBackStep([m EXCEPT !.frame.transcriptLink = r.value]))

\* the upload awaited by retryOperation rejected: lines 314-319; on the
\* last attempt the catch of processItem (301) or of the transcription step
\* (274) gets the error
UploadFail ==
  /\ pc \in RetryStages
  /\ retry.phase = "calling"
  /\ UNCHANGED <<updateCallback, config, env, now, calls, pending, lastResult,
                 disk, lastSweep, args, result>>
  /\ LET r == RetryCatch(retry, UploadError(retry.invoked))
         m == [Machine EXCEPT !.retry = r]
     IN  IF r.phase # "rejected" THEN Becomes(m)
         ELSE IF pc = "transcriptUpload"
              THEN Becomes(WriteBackStep([m EXCEPT !.retry = NoRetry]))
         ELSE Becomes(Catch(m, r.error))

\* line 319: the delay elapsed, the next attempt calls the upload again
DelayElapsed ==
  /\ pc \in RetryStages
  /\ retry.phase = "sleeping"
  /\ retry' = RetryWake(retry)
  /\ UNCHANGED <<queue, processing, updateCallback, config, env, now, db,
                 scheduledDeletions, calls, pending, lastResult, loops, pc, cur, frame,
                 disk, lastSweep, args, result, shown>>

\* lines 210-244: initializeWhisper settled (it never rejects); the file
\* name, the path under this.config.compressedStorage and the directory are
\* made, and transcribeVideo is called.  Any of these can throw (prepared =
\* FALSE), and path.join throws on an undefined storage path.
WhisperInitDone(prepared) ==
  /\ pc = "whisperInit"
  /\ UNCHANGED <<updateCallback, config, env, now, calls, pending, lastResult,
                 disk, lastSweep, args, result>>
  /\ IF prepared /\ config.compressedStorage # Undefined
     THEN Becomes([Machine EXCEPT !.pc = "transcribe",
                     !.frame.transcriptPath = <<config.compressedStorage, "transcripts",
                                                CurItem.candidateName>>])
     ELSE Becomes(WriteBackStep(Machine))

\* lines 239-243: the transcriber reports progress p
TranscribeProgress(p) ==
  /\ pc = "transcribe"
  /\ queue' = Assign(queue, cur, [progress |-> Pct(80) + p,
                                   currentStep |-> <<"Transcribing: ", p, "%">>])
  /\ shown' = Invoke(shown, queue')
  /\ UNCHANGED <<processing, updateCallback, config, env, now, db, scheduledDeletions,
                 calls, pending, lastResult, loops, pc, cur, frame, retry,
                 disk, lastSweep, args, result>>

\* lines 236-270: transcribeVideo resolved; the transcript file is there
\* (found) or not; up to the await of the transcript upload
TranscribeDone(found) ==
  /\ pc = "transcribe"
  /\ UNCHANGED <<updateCallback, config, env, now, calls, pending, lastResult,
                 disk, lastSweep, args, result>>
  /\ LET m1 == updateUI([Machine EXCEPT !.queue = Assign(@, cur,
                    [currentStep |-> <<"Uploading transcript to Drive...">>,
                     progress |-> Pct(90)])])
     IN  IF ~found THEN Becomes(WriteBackStep(Machine))
         ELSE IF UpdateUIThrows THEN Becomes(WriteBackStep(m1))
         ELSE Becomes([m1 EXCEPT !.pc = "transcriptUpload",
                                 !.retry = RetryStart(UploadRetries)])

\* line 236: transcribeVideo rejected; lines 274-288
TranscribeFail ==
  /\ pc = "transcribe"
  /\ UNCHANGED <<updateCallback, config, env, now, calls, pending, lastResult,
                 disk, lastSweep, args, result>>
  /\ Becomes(WriteBackStep(Machine))

\* key is prefix followed by "." and more: as a property path, key leads
\* through the value stored under prefix
UnderKey(prefix, key) ==
  /\ Len(key) > Len(prefix)
  /\ SubSeq(key, 1, Len(prefix)) = prefix
  /\ key[Len(prefix) + 1] = "."

\* lines 324-332, with the clock in days.  set(filePath, record) replaces
\* the value at the property path filePath, and with it what was stored
\* under that path
scheduleFileDeletion(store, filePath, days) ==
  LET kept == { p \in DOMAIN store : ~UnderKey(filePath, p) }
  IN  [p \in kept \cup {filePath} |-> IF p = filePath THEN now + days ELSE store[p]]

\* lines 288-299: updateRecordingLinks resolved: the record store holds the
\* links, the deletion is scheduled and the item is marked complete
WriteBackDone ==
  /\ pc = "writeback"
  /\ UNCHANGED <<updateCallback, config, env, now, calls, pending, lastResult,
                 disk, lastSweep, args, result>>
  /\ LET m1 == updateUI([Machine EXCEPT
                   !.db[CurItem.interviewId] = frame.writeBack[2],
                   !.scheduledDeletions =
                      scheduleFileDeletion(@, CurItem.originalFilePath, RetentionDays),
                   !.queue = Assign(@, cur, [status |-> "completed",
                                             currentStep |-> <<"Completed">>,
                                             progress |-> Pct(100),
                                             completedAt |-> now])])
     IN  IF UpdateUIThrows THEN Becomes(Catch(m1, CallbackError)) ELSE Becomes(Settled(m1))

\* line 288: updateRecordingLinks rejected
WriteBackFail ==
  /\ pc = "writeback"
  /\ UNCHANGED <<updateCallback, config, env, now, calls, pending, lastResult,
                 disk, lastSweep, args, result>>
  /\ Becomes(Catch(Machine, WriteBackError))

\* ------------------------------------------------------ specification
\* lines 146-150 and 239-243: the onProgress closures call this.updateUI()
\* with no try around it, and run in the 'data' handler of the child
\* process's stderr (video_compressor.js 270-290, transcription.js 112-124),
\* outside every promise: when the callback throws in such a step, the
\* exception is an uncaught exception of the main process
UncaughtException ==
  /\ UpdateUIThrows
  /\ \/ \E p \in ProgressValues : CompressProgress(p)
     \/ \E p \in ProgressValues : TranscribeProgress(p)

Process ==
  \/ Scan
  \/ \E p \in ProgressValues : CompressProgress(p)
  \/ CompressDone
  \/ CompressFail
  \/ UploadDone
  \/ UploadFail
  \/ DelayElapsed
  \/ \E prepared \in BOOLEAN : WhisperInitDone(prepared)
  \/ \E p \in ProgressValues : TranscribeProgress(p)
  \/ \E found \in BOOLEAN : TranscribeDone(found)
  \/ TranscribeFail
  \/ WriteBackDone
  \/ WriteBackFail

Environment ==
  \/ \E c \in Configs : SetConfig(c)
  \/ \E cb \in {"ok", "throws"} : SetUpdateCallback(cb)
  \/ Tick
  \/ ClearCompleted
  \/ \E in \in Inputs : AddVideoCall(in[1], in[2])
  \/ \E c \in pending, fetchOk \in BOOLEAN : AddVideoResume(c, fetchOk)

Next == Process \/ Environment

Spec == Init /\ [][Next]_vars

\* The processing task moves on: the call it awaits settles, the delay it
\* sleeps elapses, or it is resumed at its loop test.  At most one of these
\* is enabled in a state, the one pc names.
Settle ==
  \/ Scan
  \/ CompressDone
  \/ CompressFail
  \/ UploadDone
  \/ UploadFail
  \/ DelayElapsed
  \/ \E prepared \in BOOLEAN : WhisperInitDone(prepared)
  \/ \E found \in BOOLEAN : TranscribeDone(found)
  \/ TranscribeFail
  \/ WriteBackDone
  \/ WriteBackFail

\* Every collaborator call settles, every delay elapses, and a resumed task
\* runs: what the event loop and the collaborators' contracts give.
\* the metadata fetch an addVideo call awaits settles
Fetched == \E c \in pending, fetchOk \in BOOLEAN : AddVideoResume(c, fetchOk)

\* every call the program awaits settles and every delay elapses
Fairness == WF_vars(Settle) /\ WF_vars(Fetched)

LiveSpec == Spec /\ Fairness

\* ------------------------------------------- retryOperation on its own
\* retryOperation called directly, with every maxRetries from -1 to the
\* bound and an operation that resolves or throws as it likes.
RetryErrMsgs == {<<"first kind">>, <<"second kind">>}
RetryValue == <<"v">>

RetryInit ==
  /\ queue = <<>>
  /\ processing = FALSE
  /\ updateCallback = "null"
  /\ config = NullConfig
  /\ env = [GOOGLE_DRIVE_FOLDER_ID |-> Undefined, whisper |-> FALSE]
  /\ now = 0
  /\ db = [id \in InterviewIds |-> IF id \in KnownIds THEN InitialLink(id) ELSE Absent]
  /\ scheduledDeletions = <<>>
  /\ calls = 0
  /\ pending = {}
  /\ lastResult = [success |-> FALSE, error |-> NullStr]
  /\ loops = 0
  /\ pc = "idle"
  /\ cur = 0
  /\ frame = NoFrame
  /\ \E maxRetries \in (0 - 1)..MaxRetriesBound : retry = RetryStart(maxRetries)
  /\ disk = Files
  /\ lastSweep = NoTime
  /\ args = <<>>
  /\ result = <<>>
  /\ shown = NeverShown

\* line 313: fn resolved
RetryFnResolves ==
  /\ retry.phase = "calling"
  /\ retry' = RetryResolve(retry, RetryValue)
  /\ UNCHANGED <<queue, processing, updateCallback, config, env, now, db,
                 scheduledDeletions, calls, pending, lastResult, loops, pc, cur, frame,
                 disk, lastSweep, args, result, shown>>

\* lines 314-319: fn threw e
RetryFnThrows(e) ==
  /\ retry.phase = "calling"
  /\ retry' = RetryCatch(retry, e)
  /\ UNCHANGED <<queue, processing, updateCallback, config, env, now, db,
                 scheduledDeletions, calls, pending, lastResult, loops, pc, cur, frame,
                 disk, lastSweep, args, result, shown>>

\* line 319: the timer fired
RetryTimerFires ==
  /\ retry.phase = "sleeping"
  /\ retry' = RetryWake(retry)
  /\ UNCHANGED <<queue, processing, updateCallback, config, env, now, db,
                 scheduledDeletions, calls, pending, lastResult, loops, pc, cur, frame,
                 disk, lastSweep, args, result, shown>>

RetryNext ==
  \/ RetryFnResolves
  \/ \E e \in RetryErrMsgs : RetryFnThrows(e)
  \/ RetryTimerFires

RetrySpec == RetryInit /\ [][RetryNext]_vars

\* ------------------------------------ the deletion store and its sweep
\* scheduleFileDeletion and checkScheduledDeletions on their own: paths are
\* scheduled at the clock values a job can complete at, time passes, files
\* are removed by the user, and the sweep of lines 334-347 runs.
\*
\* The store is an electron-store.  It reads a key as a path of property
\* names separated by ".": set(key, v) stores v under the nested properties
\* the key names and get(key) follows them, so scheduledDeletions above is
\* what get and set see, path -> deleteAt.  The store property of line 336
\* is the whole object, and Object.entries gives its own properties: the
\* first property name of every key.

\* a path without ".", next to the files a user picks
SweepFiles == Files \cup { <<"/", "v", "/", "c">> }

\* the first property name of a key: what comes before its first "."
RECURSIVE FirstProperty(_)
FirstProperty(key) ==
  IF key = <<>> \/ Head(key) = "." THEN <<>>
  ELSE <<Head(key)>> \o FirstProperty(Tail(key))

\* line 338: the names Object.entries(allScheduled) iterates over
ObjectKeys(store) == { FirstProperty(key) : key \in DOMAIN store }

\* line 339: now >= data.deleteAt.  data is the record of lines 327-331 when
\* the name is a whole key; otherwise it is the object holding the rest of
\* the key, its deleteAt is undefined and the comparison is false
Due(store, name, t) == name \in DOMAIN store /\ t >= store[name]

\* lines 334-347: the files and the store after the loop.  delete(name)
\* removes the property and with it every key that starts with it
checkScheduledDeletions(store, files, t) ==
  LET due == { name \in ObjectKeys(store) : Due(store, name, t) }
      kept == { key \in DOMAIN store : FirstProperty(key) \notin due }
  IN  [store |-> [key \in kept |-> store[key]], files |-> files \ due]

\* the clock value up to which the sweep is followed
SweepHorizon == MaxTime + RetentionDays + 1

SweepInit ==
  /\ queue = <<>>
  /\ processing = FALSE
  /\ updateCallback = "null"
  /\ config = NullConfig
  /\ env = [GOOGLE_DRIVE_FOLDER_ID |-> Undefined, whisper |-> FALSE]
  /\ now = 0
  /\ db = [id \in InterviewIds |-> IF id \in KnownIds THEN InitialLink(id) ELSE Absent]
  /\ scheduledDeletions = <<>>
  /\ calls = 0
  /\ pending = {}
  /\ lastResult = [success |-> FALSE, error |-> NullStr]
  /\ loops = 0
  /\ pc = "idle"
  /\ cur = 0
  /\ frame = NoFrame
  /\ retry = NoRetry
  /\ disk = SweepFiles
  /\ lastSweep = NoTime
  /\ args = <<>>
  /\ result = <<>>
  /\ shown = NeverShown

\* line 292: a job schedules its original file, as WriteBackDone does
SweepSchedule(filePath) ==
  /\ now <= MaxTime
  /\ scheduledDeletions' = scheduleFileDeletion(scheduledDeletions, filePath, RetentionDays)
  /\ lastSweep' = NoTime
  /\ UNCHANGED <<queue, processing, updateCallback, config, env, now, db,
                 calls, pending, lastResult, loops, pc, cur, frame, retry, disk, args, result, shown>>

\* days pass
SweepClock(days) ==
  /\ now + days <= SweepHorizon
  /\ now' = now + days
  /\ lastSweep' = NoTime
  /\ UNCHANGED <<queue, processing, updateCallback, config, env, db, scheduledDeletions,
                 calls, pending, lastResult, loops, pc, cur, frame, retry, disk, args, result, shown>>

\* the user removes a file
FileRemoved(filePath) ==
  /\ filePath \in disk
  /\ disk' = disk \ {filePath}
  /\ lastSweep' = NoTime
  /\ UNCHANGED <<queue, processing, updateCallback, config, env, now, db,
                 scheduledDeletions, calls, pending, lastResult, loops, pc, cur,
                 frame, retry, args, result, shown>>

\* lines 362-363: the sweep runs, at startup or from the daily timer
SweepRun ==
  /\ \E after \in {checkScheduledDeletions(scheduledDeletions, disk, now)} :
        /\ scheduledDeletions' = after.store
        /\ disk' = after.files
  /\ lastSweep' = now
  /\ UNCHANGED <<queue, processing, updateCallback, config, env, now, db,
                 calls, pending, lastResult, loops, pc, cur, frame, retry, args, result, shown>>

SweepNext ==
  \/ \E filePath \in SweepFiles : SweepSchedule(filePath)
  \/ \E days \in {1, RetentionDays - 1} : SweepClock(days)
  \/ \E filePath \in SweepFiles : FileRemoved(filePath)
  \/ SweepRun

SweepSpec == SweepInit /\ [][SweepNext]_vars

\* ---------------------------------- the sweep next to the queue
\* The queue with the daily sweep of line 362 running between its steps.
\* The deletion store is a file: at startup it holds what earlier runs of
\* the program left in it, less what the sweep of line 363 removed, so a
\* record it holds then is not yet due.  The user picks a file with or
\* without an extension for the interview that can be uploaded; the
\* configuration is saved once, no transcription is configured and no
\* callback is registered.
QueueSweepFiles == { <<"/", "v", "/", "a", ".", "m", "p", "4">>, <<"/", "v", "/", "c">>,
                     <<"/", "v", "/", "c", ".", "m", "p", "4">> }

\* what an earlier run can have left: nothing, or one record due later
PersistedStores == { <<>> } \cup { [p \in {filePath} |-> MaxTime] : filePath \in QueueSweepFiles }

QueueSweepInit ==
  /\ queue = <<>>
  /\ processing = FALSE
  /\ updateCallback = "null"
  /\ config = NullConfig
  /\ env = [GOOGLE_DRIVE_FOLDER_ID |-> Undefined, whisper |-> FALSE]
  /\ now = 0
  /\ db = [id \in InterviewIds |-> IF id \in KnownIds THEN InitialLink(id) ELSE Absent]
  /\ scheduledDeletions \in PersistedStores
  /\ calls = 0
  /\ pending = {}
  /\ lastResult = [success |-> FALSE, error |-> NullStr]
  /\ loops = 0
  /\ pc = "idle"
  /\ cur = 0
  /\ frame = NoFrame
  /\ retry = NoRetry
  /\ disk = QueueSweepFiles
  /\ lastSweep = NoTime
  /\ args = <<>>
  /\ result = <<>>
  /\ shown = NeverShown

\* line 362: the daily timer fires and the sweep runs
TimerSweep ==
  /\ \E after \in {checkScheduledDeletions(scheduledDeletions, disk, now)} :
        /\ scheduledDeletions' = after.store
        /\ disk' = after.files
  /\ UNCHANGED <<queue, processing, updateCallback, config, env, now, db,
                 calls, pending, lastResult, loops, pc, cur, frame, retry, lastSweep, args, result, shown>>

QueueSweepNext ==
  \/ SetConfig(ConfigA)
  \/ Tick
  \/ \E filePath \in QueueSweepFiles : AddVideoCall(filePath, 1)
  \/ \E c \in pending, fetchOk \in BOOLEAN : AddVideoResume(c, fetchOk)
  \/ Scan
  \/ \E p \in ProgressValues : CompressProgress(p)
  \/ CompressDone
  \/ CompressFail
  \/ UploadDone
  \/ UploadFail
  \/ DelayElapsed
  \/ WriteBackDone
  \/ WriteBackFail
  \/ TimerSweep

QueueSweepSpec == QueueSweepInit /\ [][QueueSweepNext]_vars

\* ============================================================= claims
Terminal == {"completed", "failed"}
Active == {"compressing", "uploading"}
Positions == DOMAIN queue

\* C1: at most one job of the queue is compressing or uploading at a time;
\* next to such a job every other job is waiting, completed or failed.
C1_SingleFlight ==
  \A i, j \in Positions :
     (queue[i].status \in Active /\ i # j) =>
        queue[j].status \in {"waiting", "completed", "failed"}

\* a job is at its YouTube upload while another job waits behind it
C1_Witness ==
  /\ Len(queue) = 2
  /\ queue[1].status = "uploading"
  /\ queue[2].status = "waiting"
  /\ pc = "youtube"

\* C2: never more than one processQueue loop is running; the flag is set
\* exactly while one runs, so addVideo starts a loop only when none does.
C2_OneLoop ==
  /\ loops <= 1
  /\ processing <=> (loops = 1)
  /\ processing <=> (pc # "idle")

\* the loop has just finished a job, a job pushed meanwhile waits, and
\* still one loop runs
C2_Witness ==
  /\ pc = "scan"
  /\ Len(queue) = 2
  /\ queue[1].status \in Terminal
  /\ queue[2].status = "waiting"
  /\ loops = 1

\* C3: jobs leave waiting in queue order: a job has left waiting only when
\* every job before it is completed or failed, and of two completed jobs the
\* earlier one in the queue was completed no later.
C3_Fifo ==
  \A i, j \in Positions :
     i < j =>
       /\ (queue[j].status # "waiting" => queue[i].status \in Terminal)
       /\ (queue[i].status = "completed" /\ queue[j].status = "completed"
              => queue[i].completedAt <= queue[j].completedAt)

\* two jobs completed at different times, the second pushed while the first
\* was being processed
C3_Witness ==
  /\ Len(queue) = 2
  /\ queue[1].status = "completed"
  /\ queue[2].status = "completed"
  /\ queue[1].completedAt < queue[2].completedAt
  /\ queue[2].addedAt <= queue[1].completedAt

HasJob(n) == InQueue(queue, n)
StatusOf(n) == ItemOf(queue, n).status
JobIds == 1..MaxCalls

\* a step in which job n becomes failed
Fails(n) ==
  /\ InQueue(queue', n)
  /\ ItemOf(queue', n).status = "failed"
  /\ ~(HasJob(n) /\ StatusOf(n) = "failed")

\* what a failure of another job must leave alone
Kept(item) == <<item.status, item.progress, item.error, item.completedAt>>

\* C4 (the step): a step in which a job fails changes the status, progress,
\* error and completedAt of no other job and removes none, and leaves the
\* loop running, resumed next at its loop test.
C4_FailureStep ==
  \A n \in JobIds :
     Fails(n) =>
       /\ \A k \in JobIds \ {n} :
             HasJob(k) => /\ InQueue(queue', k)
                          /\ Kept(ItemOf(queue', k)) = Kept(ItemOf(queue, k))
       /\ processing' /\ loops' = 1 /\ pc' = "scan"

\* the first job of the queue that waits
FirstWaiting ==
  CHOOSE i \in Positions :
     /\ queue[i].status = "waiting"
     /\ \A j \in 1..(i - 1) : queue[j].status # "waiting"

\* C4 (afterwards): the loop, resumed at its loop test while a job waits,
\* takes the first waiting job out of waiting, and it ends only when no job
\* waits.
C4_LoopGoesOn ==
  /\ (pc = "scan" /\ <<pc, cur>>' # <<pc, cur>>
         /\ (\E i \in Positions : queue[i].status = "waiting"))
        => /\ queue'[FirstWaiting].id = queue[FirstWaiting].id
           /\ queue'[FirstWaiting].status # "waiting"
           /\ processing'
  /\ (processing /\ ~processing')
        => \A i \in DOMAIN queue' : queue'[i].status # "waiting"

\* C4: failure isolation.  A step in which a job fails leaves every other
\* job as it was and the loop running; the loop then processes the jobs that
\* wait, in turn, before it ends.
C4_FailureIsolation == [][C4_FailureStep /\ C4_LoopGoesOn]_vars

\* a job has just failed on its third upload attempt, the job behind it
\* waits, and the loop is about to be resumed
C4_Witness ==
  /\ Len(queue) = 2
  /\ queue[1].status = "failed"
  /\ queue[1].error = UploadError(UploadRetries)
  /\ retry.phase = "rejected"
  /\ queue[2].status = "waiting"
  /\ processing /\ pc = "scan"

\* C5: every job addVideo pushed becomes completed or failed, and a running
\* loop ends idle with no job waiting.
C5_Liveness ==
  /\ \A k \in JobIds : HasJob(k) ~> (HasJob(k) /\ StatusOf(k) \in Terminal)
  /\ processing ~> (~processing /\ \A i \in Positions : queue[i].status # "waiting")

\* C6: an operation that fails k times and then succeeds, k < maxRetries, is
\* invoked k + 1 times and retryOperation resolves with its value; the delay
\* is waited k times, once before each attempt but the first: while attempt
\* n runs, n - 1 failures and n - 1 delays lie behind it.
C6_RetrySuccess ==
  LET k == Len(retry.errors)
  IN  /\ (retry.phase = "resolved" /\ retry.invoked > 0) =>
           /\ k < retry.maxRetries
           /\ retry.value = RetryValue
           /\ retry.invoked = k + 1
           /\ retry.delays = k
      /\ retry.phase = "calling" => (retry.invoked = k + 1 /\ retry.delays = k)
      /\ retry.phase = "sleeping" => (retry.invoked = k /\ retry.delays = k)

\* two failures, then success, with maxRetries = 3
C6_Witness ==
  /\ retry.maxRetries = 3
  /\ retry.phase = "resolved"
  /\ Len(retry.errors) = 2
  /\ retry.invoked = 3
  /\ retry.value = RetryValue

\* C7: when the Drive or the YouTube upload of a job failed on each of its
\* three attempts, the upload was invoked three times, the delay was waited
\* twice (not after the third failure), the job is failed and its error is
\* the message of the third failure, not of the first or the second.
C7_RetryExhaustion ==
  retry.phase = "rejected" =>
     /\ retry.invoked = 3
     /\ retry.delays = 2
     /\ Len(retry.errors) = 3
     /\ HasJob(cur)
     /\ StatusOf(cur) = "failed"
     /\ ItemOf(queue, cur).error = retry.errors[3]
     /\ ItemOf(queue, cur).error \notin {retry.errors[1], retry.errors[2]}
     /\ ItemOf(queue, cur).currentStep = <<"Failed: ", retry.errors[3]>>

\* the YouTube upload of a job has just failed for the third time
C7_Witness ==
  /\ retry.phase = "rejected"
  /\ HasJob(cur)
  /\ ItemOf(queue, cur).progress = Pct(75)
  /\ ItemOf(queue, cur).error = UploadError(3)

\* a recording link that is not empty and not only blanks
NonBlank(link) == link # NullStr /\ \E i \in DOMAIN link : link[i] # " "

\* the record store does not know the interview, or holds a link for it
Refused(id) == db[id] = Absent \/ NonBlank(db[id])

\* C8: when addVideo returns for an interview the record store does not
\* know or that has a non-blank recording link, it returns success false
\* with an error, the queue is as it was and no loop has been started
\* (a link counts as a recording exactly when it is not blank: compared on
\* the sample links, where the queue is empty).
C8_ValidationGuard ==
  [][/\ queue = <<>> => \A link \in LinkValues : HasRecording(link) <=> NonBlank(link)
     /\ \A c \in pending :
          (c \notin pending' /\ Refused(c.interviewId)) =>
             /\ ~lastResult'.success
             /\ lastResult'.error # NullStr
             /\ queue' = queue
             /\ <<processing, loops, pc, cur>>' = <<processing, loops, pc, cur>>]_vars

\* an upload was refused for an interview whose recording this program
\* uploaded before
C8_Witness ==
  /\ lastResult = Failure(<<"Recording already uploaded!">>)
  /\ Len(queue) = 1
  /\ queue[1].status = "completed"
  /\ NonBlank(db[queue[1].interviewId])

\* the extension of a path, compared without regard to case, is one of the
\* six audio extensions
AudioPath(p) ==
  \E e \in { <<".", "m", "p", "3">>, <<".", "w", "a", "v">>, <<".", "m", "4", "a">>,
             <<".", "a", "a", "c">>, <<".", "f", "l", "a", "c">>, <<".", "o", "g", "g">> } :
     /\ Len(p) > Len(e)
     /\ p[Len(p) - Len(e)] # "/"
     /\ ToLowerCase(SubSeq(p, Len(p) - Len(e) + 1, Len(p))) = e

\* paths with every audio extension in lower, upper and mixed case, and
\* paths that only resemble them
PathSamples ==
  { <<"a">> \o e : e \in audioExtensions } \cup
  { <<"a", ".", "M", "P", "3">>, <<"a", ".", "W", "a", "V">>, <<"a", ".", "M", "4", "A">>,
    <<"a", ".", "A", "A", "C">>, <<"a", ".", "F", "l", "a", "c">>, <<"a", ".", "O", "G", "G">>,
    <<"a", ".", "m", "p", "4">>, <<"a", ".", "m", "p", "3", ".", "m", "p", "4">>,
    <<"a", ".", "m", "p", "4", ".", "m", "p", "3">>, <<"a", "m", "p", "3">>,
    <<"m", "p", "3", "/", "a", ".", "m", "o", "v">>, <<"a", ".", "o", "g", "v">>,
    <<"a", ".", "w", "a", "v", "e">>, <<"a">> } \cup Files

\* C9: for a job with an audio extension the YouTube upload is never called,
\* currentStep never names it and write-back is called with a null YouTube
\* link; for any other job write-back is called only after the YouTube
\* upload returned its link.  (The first conjunct compares the code's test
\* with the claim's on the sample paths; it does not depend on the state and
\* is evaluated where the queue is empty.)
C9_AudioOnlySkip ==
  /\ queue = <<>> => \A p \in PathSamples : IsAudioOnly(p) <=> AudioPath(p)
  /\ \A i \in Positions :
        AudioPath(queue[i].originalFilePath) =>
           /\ queue[i].currentStep # <<"Uploading to YouTube (original)...">>
           /\ ~(pc = "youtube" /\ cur = queue[i].id)
  /\ (pc = "writeback" /\ AudioPath(CurItem.originalFilePath)) =>
        frame.writeBack[3] = NullStr
  /\ (pc = "writeback" /\ ~AudioPath(CurItem.originalFilePath)) =>
        frame.writeBack[3] = YouTubeLinkOf(CurItem)

\* write-back is called for an audio job whose extension is in upper case
C9_Witness ==
  /\ pc = "writeback"
  /\ ExtName(CurItem.originalFilePath) = <<".", "M", "P", "3">>
  /\ frame.writeBack[3] = NullStr
  /\ frame.writeBack[2] # NullStr

\* the positions of the processing task inside the transcription step
TranscriptStages == {"whisperInit", "transcribe", "transcriptUpload"}

\* C10: when the transcription call throws or the transcript upload fails
\* on its last attempt, the job is not failed but goes on to write-back
\* with a null transcript link; when write-back then succeeds the job is
\* completed; without transcription configured the step is skipped and
\* write-back gets a null transcript link.
C10_BestEffort ==
  [][/\ (TranscribeFail \/ (UploadFail /\ pc = "transcriptUpload"
                                        /\ retry.attempt = retry.maxRetries))
          => /\ pc' = "writeback"
             /\ frame'.writeBack[4] = NullStr
             /\ ItemOf(queue', cur).status = "uploading"
     /\ (WriteBackDone /\ env.whisper /\ frame.writeBack[4] = NullStr)
          => ItemOf(queue', cur).status = "completed"
     /\ ~env.whisper
          => /\ pc \notin TranscriptStages
             /\ pc = "writeback" => frame.writeBack[4] = NullStr]_vars

\* C11: every write-back call carries the job's interviewId, the link its
\* Drive upload returned (never null), the link its YouTube upload returned
\* or null exactly when the job is audio-only, the link of its transcript
\* upload or null when that upload did not succeed, and its finalFileName;
\* the arguments stay as they are while the call is awaited.
C11_WriteBackArguments ==
  [][/\ (pc # "writeback" /\ pc' = "writeback") =>
          LET item == ItemOf(queue', cur')
              w == frame'.writeBack
          IN  /\ Len(w) = 5
              /\ w[1] = item.interviewId
              /\ w[2] = DriveLinkOf(item) /\ w[2] # NullStr
              /\ w[3] = IF AudioPath(item.originalFilePath) THEN NullStr
                        ELSE YouTubeLinkOf(item)
              /\ (w[3] = NullStr) <=> AudioPath(item.originalFilePath)
              /\ w[4] = IF UploadDone /\ pc = "transcriptUpload" THEN TranscriptLinkOf(item)
                        ELSE NullStr
              /\ w[5] = item.finalFileName
     /\ (pc = "writeback" /\ pc' = "writeback") => frame'.writeBack = frame.writeBack]_vars

\* write-back is called for the second job with all three links of that job
C11_Witness ==
  /\ pc = "writeback"
  /\ cur = 2
  /\ frame.writeBack[2] = DriveLinkOf(CurItem)
  /\ frame.writeBack[3] = YouTubeLinkOf(CurItem)
  /\ frame.writeBack[4] = TranscriptLinkOf(CurItem)

\* C12: a completing job stores deleteAt = completion time + 50 days for
\* its original path; a sweep that reads a clock value before deleteAt
\* leaves the record and the file as they are; a sweep that reads a clock
\* value at or after deleteAt removes the record, and the file when it
\* exists.
C12_RoundTrip ==
  [][/\ \A filePath \in SweepFiles :
           SweepSchedule(filePath) =>
              /\ filePath \in DOMAIN scheduledDeletions'
              /\ scheduledDeletions'[filePath] = now + RetentionDays
     /\ lastSweep' # NoTime =>
           \A filePath \in DOMAIN scheduledDeletions :
              IF now < scheduledDeletions[filePath]
              THEN /\ filePath \in DOMAIN scheduledDeletions'
                   /\ scheduledDeletions'[filePath] = scheduledDeletions[filePath]
                   /\ (filePath \in disk') <=> (filePath \in disk)
              ELSE /\ filePath \notin DOMAIN scheduledDeletions'
                   /\ filePath \notin disk']_vars

\* C13: a step that creates or changes a deletion record is the step of a
\* job whose write-back succeeded, after its Drive upload succeeded and its
\* YouTube upload succeeded or was skipped for an audio file; the record is
\* for that job's original path, and the job is completed by that step,
\* not failed.
C13_RecordOnlyOnSuccess ==
  [][scheduledDeletions' # scheduledDeletions =>
        /\ pc = "writeback"
        /\ InQueue(queue', cur)
        /\ LET item == ItemOf(queue', cur)
           IN  /\ DOMAIN scheduledDeletions' = DOMAIN scheduledDeletions \cup {item.originalFilePath}
               /\ \A p \in DOMAIN scheduledDeletions :
                     p # item.originalFilePath => scheduledDeletions'[p] = scheduledDeletions[p]
               /\ frame.driveLink # NullStr
               /\ frame.youtubeLink # NullStr \/ AudioPath(item.originalFilePath)
               /\ db'[item.interviewId] = frame.driveLink
               /\ item.status = "completed"]_vars

C15_LinearStatus ==
  [][\A n \in JobIds :
        /\ InQueue(queue', n) =>
              ItemOf(queue', n).status \in {"waiting", "compressing", "uploading",
                                            "completed", "failed"}
        /\ (HasJob(n) /\ InQueue(queue', n) /\ ItemOf(queue', n).status # StatusOf(n)) =>
              <<StatusOf(n), ItemOf(queue', n).status>> \in
                 { <<"waiting", "compressing">>, <<"compressing", "uploading">>,
                   <<"uploading", "completed">>, <<"compressing", "failed">>,
                   <<"uploading", "failed">> }]_vars

C17_CompletionInvariant ==
  \A i \in Positions :
     /\ (queue[i].status = "completed") <=> (queue[i].completedAt # NoTime)
     /\ queue[i].status = "completed" =>
           (queue[i].progress = Pct(100) /\ queue[i].error = NullStr)

\* the message of the failure that ends the job the step is about: the
\* configuration checks and the callback at the start of processItem, the
\* rejection of the call the task awaits (a transcript upload that fails
\* is swallowed, line 274), or what throws in the code that follows the call
TriggeringMessage ==
  IF pc \in {"idle", "scan"}
  THEN IF config.isNull THEN <<"Configuration not set">>
       ELSE IF config.compressedStorage = Undefined
            THEN <<"Compressed storage path not configured">>
       ELSE CallbackError
  ELSE IF CompressFail THEN CompressError
  ELSE IF WriteBackFail THEN WriteBackError
  ELSE IF UploadFail /\ pc # "transcriptUpload" THEN UploadError(UploadRetries)
  ELSE IF UpdateUIThrows THEN CallbackError
  ELSE <<"Cannot read properties of null">>

\* C18: a job has an error exactly when it is failed; its currentStep is
\* then "Failed: " followed by that error, and in the step in which it
\* becomes failed the error is the message of the failure that ended it.
C18_FailureInvariant ==
  [][\A n \in JobIds :
        InQueue(queue', n) =>
           LET item == ItemOf(queue', n)
           IN  /\ (item.error # NullStr) <=> (item.status = "failed")
               /\ item.status = "failed" => item.currentStep = <<"Failed: ", item.error>>
               /\ Fails(n) => item.error = TriggeringMessage]_vars

\* a job failed by the last attempt of its Drive upload, another by the
\* compressor
C18_Witness ==
  /\ Len(queue) = 2
  /\ queue[1].status = "failed" /\ queue[1].error = UploadError(UploadRetries)
  /\ queue[1].currentStep = <<"Failed: ", UploadError(UploadRetries)>>
  /\ queue[2].status = "failed" /\ queue[2].error = CompressError

\* C19: the step in which a job becomes failed ends its processItem call,
\* with no call to a collaborator pending and the loop next at its test;
\* from then on no call is pending or started for that job, and no step
\* made for it writes the record store or the deletion store.
C19_NoStageAfterFailure ==
  [][\A n \in JobIds :
        /\ Fails(n) =>
              /\ pc' = "scan"
              /\ frame' = NoFrame
              /\ retry'.phase \notin {"calling", "sleeping"}
        /\ (HasJob(n) /\ StatusOf(n) = "failed") =>
              /\ pc' \notin {"idle", "scan"} => cur' # n
              /\ cur = n =>
                    /\ pc \in {"idle", "scan"}
                    /\ db' = db
                    /\ scheduledDeletions' = scheduledDeletions
                    /\ retry'.invoked <= retry.invoked]_vars

\* the first job has failed at its Drive upload and the second job is at
\* its YouTube upload
C19_Witness ==
  /\ Len(queue) = 2
  /\ queue[1].status = "failed"
  /\ queue[1].error = UploadError(UploadRetries)
  /\ queue[2].status = "uploading"
  /\ pc = "youtube"
  /\ cur = 2

\* the configuration in force when processItem began with the job in
\* flight: the one whose compressedStorage line 138 put in compressedPath
StartConfig == CHOOSE c \in Configs : c.compressedStorage = frame.compressedPath[1]

\* C20: the Drive folder a job uploads to and the directory its transcript
\* goes to come from the configuration in force when its processing began,
\* whatever setConfig did since.
C20_ConfigFrozen ==
  [][/\ (pc = "compress" /\ pc' = "drive") =>
           frame'.driveFolderId =
              IF env.GOOGLE_DRIVE_FOLDER_ID # Undefined THEN env.GOOGLE_DRIVE_FOLDER_ID
              ELSE IF StartConfig.driveFolderId # Undefined THEN StartConfig.driveFolderId
              ELSE Null
     /\ (pc = "whisperInit" /\ pc' = "transcribe") =>
           frame'.transcriptPath[1] = StartConfig.compressedStorage]_vars

\* the fields of a job written at its creation only
WriteOnce(item) ==
  <<item.id, item.originalFilePath, item.originalFileName, item.interviewId,
    item.candidateName, item.company, item.interviewType, item.interviewDate,
    item.finalFileName, item.addedAt>>

C22_SweepSafe ==
  [][\A filePath \in disk \ disk' :
        /\ filePath \in DOMAIN scheduledDeletions
        /\ now >= scheduledDeletions[filePath]
        /\ \A i \in Positions :
              queue[i].originalFilePath = filePath =>
                 queue[i].status \notin {"waiting", "compressing", "uploading"}]_vars

\* C23: no Drive upload is started for an interview whose record holds a
\* recording link, and a write-back succeeds only for an interview whose
\* record held none: for every interview at most one job uploads and
\* writes back.
C23_NoReupload ==
  [][/\ (pc # "drive" /\ pc' = "drive") =>
           ~NonBlank(db[ItemOf(queue', cur').interviewId])
     /\ \A id \in InterviewIds : db'[id] # db[id] => ~NonBlank(db[id])]_vars

\* C24: no step ends with an exception that nothing caught, and an addVideo
\* call that returns resolves with a result: success, or success false
\* with the message of the failure.
C24_Containment ==
  [][/\ ~UncaughtException
     /\ (\E c \in pending : pending' = pending \ {c}) =>
           /\ lastResult'.success \in BOOLEAN
           /\ lastResult'.success <=> (lastResult'.error = NullStr)]_vars

\* C25: the progress of every job is a whole number of percent from 0 to
\* 100 (progress is kept in tenths of a percent).
C25_ProgressRange ==
  \A i \in Positions :
     /\ queue[i].progress % 10 = 0
     /\ 0 <= queue[i].progress
     /\ queue[i].progress <= Pct(100)

\* ------------------------------------------------- compression strategy
\* Sizes are in KB (sizeMB = size / 1024 / 1024 of a whole number of KB),
\* bit rates in bits per second as ffprobe reports them; a bit rate of 0
\* stands for the null analyzeVideo returns when ffprobe reports none.

\* sizeMB < edge
BelowOrAt(sizeKB, edgeMB) == sizeKB <= edgeMB * 1024

Below(sizeKB, edgeMB) == sizeKB < edgeMB * 1024

\* The division is exact for the frame rates drawn below.
calculateOptimalBitrate(width, height, fps) ==
  LET pixels == width * height
      is4K == pixels >= 3840 * 2160
      is1080p == pixels >= 1920 * 1080
      is720p == pixels >= 1280 * 720
      baseBitrate == IF is4K THEN 20000000
                     ELSE IF is1080p THEN 8000000
                     ELSE IF is720p THEN 5000000
                     ELSE 2500000
  IN IF fps > 30 THEN (baseBitrate * fps) \div 30 ELSE baseBitrate

\* currentEfficiency as the fraction num / den
currentEfficiency(videoInfo) ==
  IF videoInfo.videoBitrate # 0
  THEN [num |-> videoInfo.videoBitrate,
        den |-> calculateOptimalBitrate(videoInfo.width, videoInfo.height,
                                        videoInfo.fps)]
  ELSE [num |-> 1, den |-> 1]

\* efficiency > a / b and efficiency < a / b
Exceeds(efficiency, a, b) == efficiency.num * b > a * efficiency.den

Under(efficiency, a, b) == efficiency.num * b < a * efficiency.den

ModernCodecsH264Only == {"h264"}

ModernCodecs == {"h264", "hevc"}

getCompressionStrategy(sizeKB, videoInfo) ==
  LET resolution == videoInfo.width * videoInfo.height
      isHighRes == resolution >= 1920 * 1080
      is4K == resolution >= 3840 * 2160
      efficiency == currentEfficiency(videoInfo)
      strategy == [shouldCompress |-> TRUE, crf |-> 23, preset |-> "medium",
                   audioBitrate |-> "128k", targetReduction |-> 30,
                   reason |-> "", twoPass |-> FALSE,
                   maxrate |-> Null, bufsize |-> Null]
      rates(k4, b4, kHigh, bHigh) ==
        IF is4K THEN [maxrate |-> k4, bufsize |-> b4]
        ELSE IF isHighRes THEN [maxrate |-> kHigh, bufsize |-> bHigh]
        ELSE [maxrate |-> Null, bufsize |-> Null]
      tiered ==
        IF Below(sizeKB, 100)
        THEN [strategy EXCEPT !.shouldCompress = FALSE,
                              !.reason = "File too small"]
        ELSE IF Below(sizeKB, 400)
        THEN IF Exceeds(efficiency, 3, 2)
             THEN [strategy EXCEPT !.crf = 21, !.preset = "slow",
                                   !.targetReduction = 25,
                                   !.reason = "Small file with potential"]
             ELSE [strategy EXCEPT !.shouldCompress = FALSE,
                                   !.reason = "Small file already efficient"]
        ELSE IF Below(sizeKB, 800)
        THEN [strategy EXCEPT !.crf = IF isHighRes THEN 22 ELSE 23,
                              !.preset = "medium",
                              !.targetReduction = 20,
                              !.audioBitrate = "192k",
                              !.reason = "Medium file"]
        ELSE IF Below(sizeKB, 1500)
        THEN [strategy EXCEPT !.crf = IF is4K THEN 21 ELSE 22,
                              !.preset = "slow",
                              !.targetReduction = 25,
                              !.audioBitrate = "192k",
                              !.twoPass = is4K,
                              !.reason = "Large file",
                              !.maxrate = rates("20M", "40M", "8M", "16M").maxrate,
                              !.bufsize = rates("20M", "40M", "8M", "16M").bufsize]
        ELSE IF Below(sizeKB, 2500)
        THEN [strategy EXCEPT !.crf = IF is4K THEN 22 ELSE 23,
                              !.preset = "slow",
                              !.targetReduction = 30,
                              !.audioBitrate = "192k",
                              !.twoPass = TRUE,
                              !.reason = "Very large file",
                              !.maxrate = rates("18M", "36M", "6M", "12M").maxrate,
                              !.bufsize = rates("18M", "36M", "6M", "12M").bufsize]
        ELSE [strategy EXCEPT !.crf = IF is4K THEN 23 ELSE 24,
                              !.preset = "slow",
                              !.targetReduction = 35,
                              !.audioBitrate = "192k",
                              !.twoPass = TRUE,
                              !.reason = "Extremely large file",
                              !.maxrate = rates("16M", "32M", "5M", "10M").maxrate,
                              !.bufsize = rates("16M", "32M", "5M", "10M").bufsize]
      audio ==
        IF videoInfo.audioBitrate # 0 /\ videoInfo.audioBitrate < 96000
        THEN [tiered EXCEPT !.audioBitrate = "copy"]
        ELSE tiered
  IN IF videoInfo.videoCodec \in ModernCodecs /\ Under(efficiency, 6, 5)
     THEN [audio EXCEPT !.shouldCompress = FALSE,
                        !.reason = "Already efficiently encoded"]
     ELSE audio

\* The part of compressVideo from the analysis to the choice between the
\* copy and ffmpeg: what it resolves with when it copies, "ffmpeg" when
\* it goes on to transcode.
compressVideo(call) ==
  LET computed == getCompressionStrategy(call.sizeKB, call.videoInfo)
      strategy == IF call.options.forceCompress
                  THEN [computed EXCEPT !.shouldCompress = TRUE]
                  ELSE computed
  IN [strategy |-> strategy,
      copied |-> IF ~strategy.shouldCompress
                 THEN {<<call.inputPath, call.outputPath>>} ELSE {},
      did |-> IF ~strategy.shouldCompress THEN "skipped" ELSE "ffmpeg"]

\* Inputs: sizes on, just under and just over every tier edge, the four
\* resolution classes, frame rates at and over 30, video bit rates at
\* 1.1, 1.2, 1.5 and 1.6 times the optimal one (and none), codecs in and
\* out of the modern list, audio bit rates under and over 96000 (and none).
TierEdges == {100, 400, 800, 1500, 2500}

StrategySizes ==
  UNION { {e * 1024 - 1, e * 1024, e * 1024 + 1} : e \in TierEdges }
     \cup {99 * 1024, 101 * 1024, 3000 * 1024}

StrategyFrames == { <<640, 480>>, <<1280, 720>>, <<1920, 1080>>, <<3840, 2160>> }

StrategyRates(dim, fps) ==
  {0} \cup { (calculateOptimalBitrate(dim[1], dim[2], fps) * k) \div 10 :
                k \in {11, 12, 15, 16} }

StrategyInputs ==
  { [sizeKB |-> size,
     videoInfo |-> [width |-> dim[1], height |-> dim[2], fps |-> fps,
                    videoBitrate |-> rate, videoCodec |-> codec,
                    audioBitrate |-> audio],
     \* the only caller passes { onProgress } (processItem)
     options |-> [forceCompress |-> FALSE],
     inputPath |-> "in", outputPath |-> "out"] :
       size \in StrategySizes, dim \in StrategyFrames, fps \in {30, 60},
       rate \in UNION { StrategyRates(f, r) : f \in StrategyFrames, r \in {30, 60} },
       codec \in {"h264", "hevc", "vp9"}, audio \in {0, 64000, 128000} }

StrategyInit ==
  /\ queue = <<>>
  /\ processing = FALSE
  /\ updateCallback = "null"
  /\ config = NullConfig
  /\ env = [GOOGLE_DRIVE_FOLDER_ID |-> Undefined, whisper |-> FALSE]
  /\ now = 0
  /\ db = [id \in InterviewIds |-> IF id \in KnownIds THEN InitialLink(id) ELSE Absent]
  /\ scheduledDeletions = <<>>
  /\ calls = 0
  /\ pending = {}
  /\ lastResult = [success |-> FALSE, error |-> NullStr]
  /\ loops = 0
  /\ pc = "idle"
  /\ cur = 0
  /\ frame = NoFrame
  /\ retry = NoRetry
  /\ disk = Files
  /\ lastSweep = NoTime
  /\ args \in StrategyInputs
  /\ result = <<>>
  /\ shown = NeverShown

CompressVideoCall ==
  /\ args # <<>>
  /\ result = <<>>
  /\ result' = compressVideo(args)
  /\ UNCHANGED <<queue, processing, updateCallback, config, env, now, db,
                 scheduledDeletions, calls, pending, lastResult, loops, pc,
                 cur, frame, retry, disk, lastSweep, args, shown>>

StrategyNext == CompressVideoCall

StrategySpec == StrategyInit /\ [][StrategyNext]_vars

\* C26: getCompressionStrategy never compresses a file under 100 MB;
\* compresses a file of 100 to under 400 MB, with crf 21 and preset slow,
\* exactly when its video bit rate is more than 1.5 times the optimal one;
\* gives a 4K file of 2500 MB or more two passes and crf 23; and a file
\* whose size is exactly on an edge (100, 400, 800, 1500, 2500 MB) gets
\* the settings of the tier above the edge.
C26_TierBoundaries ==
  result # <<>> =>
    LET s == result.strategy
        size == args.sizeKB
        v == args.videoInfo
        optimal == calculateOptimalBitrate(v.width, v.height, v.fps)
        MB(n) == n * 1024
    IN /\ size < MB(100) => ~s.shouldCompress
       /\ (MB(100) <= size /\ size < MB(400)) =>
             /\ s.shouldCompress <=> 2 * v.videoBitrate > 3 * optimal
             /\ s.shouldCompress => s.crf = 21 /\ s.preset = "slow"
             /\ s.targetReduction \in {25, 30}
       /\ (MB(400) <= size /\ size < MB(800)) =>
             s.targetReduction = 20 /\ s.preset = "medium"
       /\ (MB(800) <= size /\ size < MB(1500)) =>
             s.targetReduction = 25 /\ s.preset = "slow"
       /\ (MB(1500) <= size /\ size < MB(2500)) =>
             s.targetReduction = 30 /\ s.twoPass
       /\ MB(2500) <= size => s.targetReduction = 35 /\ s.twoPass
       /\ (MB(2500) <= size /\ v.width * v.height >= 3840 * 2160) =>
             s.twoPass /\ s.crf = 23

C26_Witness ==
  /\ result # <<>>
  /\ args.sizeKB = 100 * 1024
  /\ result.strategy.shouldCompress
  /\ result.strategy.crf = 21

\* C27: in every size tier and at every resolution, a source encoded with
\* h264 or hevc whose video bit rate is under 1.2 times the optimal one
\* gets shouldCompress = false, and compressVideo copies it to the output
\* path and resolves as skipped instead of running ffmpeg.
C27_EfficientSkip ==
  (/\ result # <<>>
   /\ args.videoInfo.videoCodec \in {"h264", "hevc"}
   /\ 5 * args.videoInfo.videoBitrate <
         6 * calculateOptimalBitrate(args.videoInfo.width,
                                     args.videoInfo.height,
                                     args.videoInfo.fps))
     => /\ ~result.strategy.shouldCompress
        /\ result.did = "skipped"
        /\ result.copied = {<<args.inputPath, args.outputPath>>}

C27_Witness ==
  /\ result # <<>>
  /\ args.sizeKB = 3000 * 1024
  /\ args.videoInfo.videoCodec = "hevc"
  /\ args.videoInfo.width = 3840
  /\ 10 * args.videoInfo.videoBitrate =
        11 * calculateOptimalBitrate(args.videoInfo.width,
                                     args.videoInfo.height,
                                     args.videoInfo.fps)
  /\ result.did = "skipped"

\* ------------------------------------------- generateFileName on its own
MaxNameLen == 2

\* characters of a candidate name: a letter, and one of each kind that
\* sanitizeFilename treats
NameChars == {"J", " ", "_", "'", "&", "/"}

RECURSIVE StringsUpTo(_, _)
StringsUpTo(chars, n) ==
  IF n = 0 THEN { <<>> }
  ELSE LET shorter == StringsUpTo(chars, n - 1)
       IN shorter \cup { Append(s, c) : s \in shorter, c \in chars }

FileNameInputs ==
  [candidateName : StringsUpTo(NameChars, MaxNameLen),
   company : { <<"C", "o">>, <<"A", "&", "B">>, <<"C", ":", "o">>, <<>> },
   interviewType : { <<"H", "R">>, <<"H", " ", " ", "R">>, <<"'", "H", "R", "'">> },
   interviewDate : { [typeof |-> "string", value |-> <<"2", "4", "-", "1">>],
                     [typeof |-> "string",
                      value |-> <<"2", "4", "-", "1", "T", "0", ":", "0">>],
                     [typeof |-> "string",
                      value |-> <<"2", "4", "-", "1", " ", "0", ":", "0">>],
                     [typeof |-> "Date",
                      toISOString |-> <<"2", "4", "-", "1", "T", "0", ":", "0">>],
                     [typeof |-> "null"] },
   extension : { <<".", "m", "p", "4">>, <<>>, <<".", "m", "p", "4", " ", "1">> }]

FileNameInit ==
  /\ queue = <<>>
  /\ processing = FALSE
  /\ updateCallback = "null"
  /\ config = NullConfig
  /\ env = [GOOGLE_DRIVE_FOLDER_ID |-> Undefined, whisper |-> FALSE]
  /\ now = 0
  /\ db = [id \in InterviewIds |-> IF id \in KnownIds THEN InitialLink(id) ELSE Absent]
  /\ scheduledDeletions = <<>>
  /\ calls = 0
  /\ pending = {}
  /\ lastResult = [success |-> FALSE, error |-> NullStr]
  /\ loops = 0
  /\ pc = "idle"
  /\ cur = 0
  /\ frame = NoFrame
  /\ retry = NoRetry
  /\ disk = Files
  /\ lastSweep = NoTime
  /\ args \in FileNameInputs
  /\ result = <<>>
  /\ shown = NeverShown

GenerateFileNameCall ==
  /\ args # <<>>
  /\ result = <<>>
  /\ result' = [fileName |-> generateFileName(args.candidateName, args.company,
                                              args.interviewType,
                                              args.interviewDate, args.extension)]
  /\ UNCHANGED <<queue, processing, updateCallback, config, env, now, db,
                 scheduledDeletions, calls, pending, lastResult, loops, pc,
                 cur, frame, retry, disk, lastSweep, args, shown>>

FileNameNext == GenerateFileNameCall

FileNameSpec == FileNameInit /\ [][FileNameNext]_vars

\* the number of places where sub occurs in s
Occurrences(s, sub) ==
  Cardinality({ i \in 1..(Len(s) - Len(sub) + 1) :
                   SubSeq(s, i, i + Len(sub) - 1) = sub })

Range(s) == { s[i] : i \in 1..Len(s) }

\* C28: the name generateFileName returns holds none of / \ : * ? " < > |,
\* no apostrophe, no whitespace and no two underscores in a row, and every
\* "&" of the candidate name, the company and the interview type is in it
\* as "and".
C28_Sanitized ==
  result # <<>> =>
    LET out == result.fileName
        amps == Occurrences(args.candidateName, <<"&">>)
                  + Occurrences(args.company, <<"&">>)
                  + Occurrences(args.interviewType, <<"&">>)
    IN /\ Range(out) \cap {"/", "\\", ":", "*", "?", "\"", "<", ">", "|", "'"} = {}
       /\ Range(out) \cap {" ", "\t", "\n"} = {}
       /\ Occurrences(out, <<"_", "_">>) = 0
       /\ "&" \notin Range(out)
       /\ Occurrences(out, <<"a", "n", "d">>) >= amps

\* C29: for maxRetries >= 1, retryOperation invokes the operation at most
\* maxRetries times; an attempt other than the first starts only from the
\* wait that followed the failure of the previous one, every earlier
\* attempt having failed; once it resolved nothing more happens; a failed
\* attempt is followed by exactly one wait when it is not the last and by
\* the rethrow, without a wait, when it is; nothing else waits.
C29_RetrySequencing ==
  [][retry.maxRetries >= 1 =>
       LET failed == Len(retry'.errors) = Len(retry.errors) + 1
       IN /\ retry'.invoked <= retry'.maxRetries
          /\ retry'.invoked # retry.invoked =>
                /\ retry'.invoked = retry.invoked + 1
                /\ retry.phase = "sleeping"
                /\ Len(retry.errors) = retry.invoked
          /\ retry.phase = "resolved" => retry' = retry
          /\ retry'.errors # retry.errors => (failed /\ retry.phase = "calling")
          /\ (failed /\ retry.attempt < retry.maxRetries) =>
                (retry'.phase = "sleeping" /\ retry'.delays = retry.delays + 1)
          /\ (failed /\ retry.attempt >= retry.maxRetries) =>
                (retry'.phase = "rejected" /\ retry'.delays = retry.delays)
          /\ retry'.delays # retry.delays => failed
          /\ retry'.phase = "calling" => retry'.delays = retry'.invoked - 1]_vars

\* four attempts failed with maxRetries = 4: three waits, then the rethrow
C29_Witness ==
  /\ retry.maxRetries = 4
  /\ retry.phase = "rejected"
  /\ retry.invoked = 4
  /\ retry.delays = 3

\* the order of the stages of processItem
StageRank(p) ==
  CASE p = "compress" -> 1
    [] p = "drive" -> 2
    [] p = "youtube" -> 3
    [] p = "whisperInit" -> 4
    [] p = "transcribe" -> 5
    [] p = "transcriptUpload" -> 6
    [] p = "writeback" -> 7
    [] OTHER -> 0

\* C30: for each job the compression and the write-back are called at
\* most once and each of the three uploads at most three times: a job is
\* taken into compression only when it was just added or is waiting, and
\* never waits again,
\* afterwards it only moves on to later stages, an upload stage starts
\* with its first call and makes one more call at a time up to three,
\* and a write-back that fails ends the stage with the job failed and the
\* error of the write-back.
C30_CallBudget ==
  [][/\ (pc' # pc /\ pc' = "compress") =>
           /\ pc \in {"idle", "scan"}
           /\ InQueue(queue, cur') => ItemOf(queue, cur').status = "waiting"
           /\ ItemOf(queue', cur').status = "compressing"
     /\ (pc' # pc /\ StageRank(pc') > 1) =>
           /\ cur' = cur
           /\ StageRank(pc) >= 1
           /\ StageRank(pc) < StageRank(pc')
     /\ \A i \in DOMAIN queue' :
           queue'[i].status = "waiting" =>
              \A j \in DOMAIN queue : queue[j].id = queue'[i].id =>
                 queue[j].status = "waiting"
     /\ pc' \in RetryStages =>
           /\ 1 <= retry'.invoked
           /\ retry'.invoked <= 3
           /\ pc' # pc => retry'.invoked = 1
           /\ pc' = pc => retry'.invoked \in {retry.invoked, retry.invoked + 1}
     /\ WriteBackFail =>
           /\ pc' # "writeback"
           /\ ItemOf(queue', cur).status = "failed"
           /\ ItemOf(queue', cur).error = WriteBackError
           /\ db' = db]_vars

\* the write-back of the first job has failed on its only call
C30_Witness ==
  /\ HasJob(1)
  /\ StatusOf(1) = "failed"
  /\ ItemOf(queue, 1).error = WriteBackError
  /\ ItemOf(queue, 1).progress = Pct(95)

\* C31: within a job the calls come in the order compression, Drive
\* upload, YouTube upload (not for an audio file), transcription and
\* transcript upload, write-back, scheduling of the deletion, and then
\* status completed.  The Drive upload starts only when the compression
\* resolved, the YouTube upload and the transcription only when the Drive
\* upload returned a link (the transcription of a video only when the
\* YouTube upload returned one too), the write-back is called only with
\* the link the Drive upload returned, and a job becomes completed only in
\* the step in which its write-back resolved, with the record store
\* holding its link and the deletion of its file scheduled.
C31_StageOrder ==
  [][/\ (pc' # pc /\ pc' = "drive") => pc = "compress"
     /\ (pc' # pc /\ pc' = "youtube") =>
           /\ pc = "drive"
           /\ frame'.driveLink = DriveLinkOf(ItemOf(queue, cur))
           /\ ~IsAudioOnly(ItemOf(queue, cur).originalFilePath)
     /\ (pc' # pc /\ pc' = "whisperInit") =>
           /\ frame'.driveLink = DriveLinkOf(ItemOf(queue, cur))
           /\ \/ pc = "youtube" /\ frame'.youtubeLink = YouTubeLinkOf(ItemOf(queue, cur))
              \/ pc = "drive" /\ IsAudioOnly(ItemOf(queue, cur).originalFilePath)
     /\ (pc' # pc /\ pc' = "transcribe") => pc = "whisperInit"
     /\ (pc' # pc /\ pc' = "transcriptUpload") => pc = "transcribe"
     /\ (pc' # pc /\ pc' = "writeback") =>
           /\ pc \in {"drive", "youtube", "whisperInit", "transcribe", "transcriptUpload"}
           /\ frame'.driveLink = DriveLinkOf(ItemOf(queue, cur))
           /\ frame'.writeBack[2] = frame'.driveLink
           /\ IsAudioOnly(ItemOf(queue, cur).originalFilePath)
                 \/ frame'.youtubeLink = YouTubeLinkOf(ItemOf(queue, cur))
     /\ scheduledDeletions' # scheduledDeletions => pc = "writeback"
     /\ \A n \in JobIds :
           (HasJob(n) /\ InQueue(queue', n) /\ StatusOf(n) # "completed"
              /\ ItemOf(queue', n).status = "completed") =>
                 /\ pc = "writeback" /\ cur = n
                 /\ StatusOf(n) = "uploading"
                 /\ db'[ItemOf(queue, n).interviewId] = frame.writeBack[2]
                 /\ ItemOf(queue, n).originalFilePath \in DOMAIN scheduledDeletions'
                 /\ pc' = "scan"]_vars

\* a video went through every stage with the transcriber configured and
\* is completed
C31_Witness ==
  /\ env.whisper
  /\ HasJob(1)
  /\ StatusOf(1) = "completed"
  /\ ~IsAudioOnly(ItemOf(queue, 1).originalFilePath)
  /\ db[1] = DriveLinkOf(ItemOf(queue, 1))
  /\ ItemOf(queue, 1).originalFilePath \in DOMAIN scheduledDeletions
  /\ pc = "scan"

\* C32: a compressing job has progress at most 50, and a value p of the
\* compressor shows as floor(p / 2); the progress of the job in work is 50
\* during the Drive upload, 75 during the YouTube upload, 80 when the
\* transcription step starts and from 80 to 90 during the transcription,
\* 90 during the transcript upload and 95 during the write-back; a
\* completed job has 100; an uploading job never has less than 50, and a
\* job gets to uploading with exactly 50.
C32_ProgressAnchors ==
  [][/\ \A i \in DOMAIN queue' :
           /\ queue'[i].status = "compressing" => queue'[i].progress <= Pct(50)
           /\ queue'[i].status = "uploading" => queue'[i].progress >= Pct(50)
           /\ queue'[i].status = "completed" => queue'[i].progress = Pct(100)
     /\ pc' # "idle" /\ pc' # "scan" =>
           LET progress == ItemOf(queue', cur').progress
           IN /\ pc' = "drive" => progress = Pct(50)
              /\ pc' = "youtube" => progress = Pct(75)
              /\ pc' = "whisperInit" => progress = Pct(80)
              /\ pc' = "transcribe" => (Pct(80) <= progress /\ progress <= Pct(90))
              /\ pc' = "transcriptUpload" => progress = Pct(90)
              /\ pc' = "writeback" => progress = Pct(95)
     /\ (pc = "compress" /\ pc' = "compress"
           /\ ItemOf(queue', cur).progress # ItemOf(queue, cur).progress) =>
              \E p \in ProgressValues : ItemOf(queue', cur).progress = Pct(p \div 2)
     /\ \A n \in JobIds :
           (HasJob(n) /\ InQueue(queue', n) /\ StatusOf(n) # "uploading"
              /\ ItemOf(queue', n).status = "uploading") =>
                 (StatusOf(n) = "compressing" /\ ItemOf(queue', n).progress = Pct(50))]_vars

\* the compressor reported 100 and the job shows 50, still compressing
C32_Witness ==
  /\ pc = "compress"
  /\ CurItem.status = "compressing"
  /\ CurItem.progress = Pct(50)

\* the statuses of the jobs, by id
Statuses(q) == { <<q[i].id, q[i].status>> : i \in DOMAIN q }

\* C33: with an update callback registered, every step in which a job is
\* appended, the status of a job changes or jobs are cleared ends with the
\* callback called last with the queue as the step leaves it, so that
\* nothing changes and nothing else runs between the change and the call;
\* with no callback registered the changes happen all the same, without a
\* call and without a failure of the callback.
C33_SnapshotOnChange ==
  [][/\ (updateCallback # "null" /\ Statuses(queue') # Statuses(queue)) =>
           shown' = [invoked |-> TRUE, queue |-> queue']
     /\ updateCallback = "null" =>
           /\ shown' = shown
           /\ \A i \in DOMAIN queue' : queue'[i].error # CallbackError
           /\ (\E c \in pending : pending' = pending \ {c}) =>
                 lastResult'.error # CallbackError]_vars

\* the callback was called last with a queue of a completed and a
\* compressing job, which is the queue
C33_Witness ==
  /\ updateCallback = "ok"
  /\ shown = [invoked |-> TRUE, queue |-> queue]
  /\ Len(queue) = 2
  /\ queue[1].status = "completed"
  /\ queue[2].status = "compressing"

\* C34: whenever the queue holds a waiting, compressing or uploading job
\* the processing flag is true; the flag is false only when there is no
\* such job.
C34_ProcessingFlag ==
  (\E i \in Positions : queue[i].status \in {"waiting", "compressing", "uploading"})
     => processing

\* C35: a second sweep at the same clock value leaves the store and the
\* files as the first left them; a sweep leaves every record whose
\* deleteAt is still ahead as it is, and leaves the queue, the processing
\* flag and the configuration alone.
C35_SweepIdempotent ==
  [][/\ LET once == checkScheduledDeletions(scheduledDeletions, disk, now)
            twice == checkScheduledDeletions(once.store, once.files, now)
        IN  twice = once
     /\ TimerSweep =>
           /\ \A key \in DOMAIN scheduledDeletions :
                 now < scheduledDeletions[key] =>
                    /\ key \in DOMAIN scheduledDeletions'
                    /\ scheduledDeletions'[key] = scheduledDeletions[key]
           /\ UNCHANGED <<queue, processing, config>>]_vars

\* C36: when an addVideo call returns success false the queue is as it
\* was before the call resumed; when it returns success true, the jobs
\* that were in the queue are still there in their order and one job was
\* appended at the tail, which is waiting unless the call itself started
\* the loop.
C36_AllOrNothing ==
  [][(\E c \in pending : pending' = pending \ {c}) =>
        IF lastResult'.success
        THEN /\ Len(queue') = Len(queue) + 1
             /\ \A i \in DOMAIN queue : queue'[i].id = queue[i].id
             /\ queue'[Len(queue')].id \notin { queue[i].id : i \in DOMAIN queue }
             /\ processing =>
                   /\ SubSeq(queue', 1, Len(queue)) = queue
                   /\ queue'[Len(queue')].status = "waiting"
        ELSE queue' = queue]_vars

\* C37: the record store changes only in the step in which the write-back
\* of the job in work resolved, and that job is then completed; a failed
\* job's interview record does not hold the link of that job.
C37_StoreAgreesWithJob ==
  [][/\ db' # db =>
           /\ pc = "writeback"
           /\ InQueue(queue', cur)
           /\ ItemOf(queue', cur).status = "completed"
     /\ \A i \in DOMAIN queue' :
           queue'[i].status = "failed" =>
              db'[queue'[i].interviewId] # DriveLinkOf(queue'[i])]_vars

\* C38: for every maxRetries, zero and negative values included,
\* retryOperation has invoked the operation at least once, and when it
\* resolved it resolved with the value a successful invocation returned.
C38_RetryInvokesOnce ==
  /\ retry.invoked >= 1
  /\ retry.phase = "resolved" => retry.value = RetryValue

\* C39: the jobs stand in the queue in the order of their addVideo calls (a
\* job's id is the number of its call), so that the loop, which takes them
\* by position, processes an earlier call's job before a later call's: this
\* also when the later call's fetch returns before the earlier call's.
C39_CallOrder ==
  \A i, j \in Positions : i < j => queue[i].id < queue[j].id
====
